---- MODULE Spec2Model ----
(***************************************************************************)
(* AirPlay metadata control script (backend/scripts/airplay-control-       *)
(* script.py): the MetadataStore, the MetadataParser state machine         *)
(* (metadata bundles, track identity, artwork) and the pipe-monitor        *)
(* thread that feeds it and pushes notifications to Snapcast.              *)
(*                                                                         *)
(* One step of the model is one critical section of MetadataStore.lock     *)
(* (update, get_all, get_metadata_for_snapcast) together with the          *)
(* thread-private parser code that surrounds it.                           *)
(*                                                                         *)
(* The DLNA source is modelled next to it: the gmrender metadata bridge    *)
(* (backend/scripts/gmrender-metadata-bridge.py), which turns gmrender's   *)
(* log lines into the metadata file, and the metadata monitor of           *)
(* backend/scripts/dlna-control-script.py, which reads that file into its  *)
(* own store and notifies Snapcast. One step of either is one log line     *)
(* processed, or one pass of the monitor's loop.                           *)
(***************************************************************************)
EXTENDS Integers, Sequences, FiniteSets, TLC

(* ------------------------------------------------------------------ *)
(* Values                                                              *)
(* ------------------------------------------------------------------ *)

\* Python's None. Text values are sequences of characters, so None is a
\* sequence no payload can produce.
None == <<"None">>

\* Decoded payloads delivered in the <data> element of an item.
Payloads == {<<>>, <<" ">>, <<"A">>, <<"B">>, <<" ", "A", " ">>}

\* Files shairport-sync may leave in the cover art cache: <<stem, suffix>>.
CacheFiles == {<<"cover-1", "jpg">>, <<"cover-2", "png">>}

Fields == {"title", "artist", "album"}

\* Grace window, in seconds, of the artwork heuristic.
GraceWindow == 2

\* Seconds of wall clock a run may span.
MaxElapsed == 3

\* While one thread is between the two reads of a message, the other threads
\* bring the store to at most this many different contents.
MaxDuring == 3

\* time.time() when the script starts: an instant long after the epoch, so
\* that last_artwork_load_time = 0 lies far outside the grace window.
StartTime == GraceWindow + 8
MaxTime == StartTime + MaxElapsed

\* last_updated before the first update (None in the source).
NoTime == 0 - 1

\* duration before the first progress report (None in the source).
NoDuration == 0 - 1

\* Python truthiness of an Optional[int].
TruthyInt(n) == n # NoDuration /\ n # 0

IsSpace(c) == c = " "

RECURSIVE LStrip(_)
LStrip(s) ==
    IF s = <<>> THEN s
    ELSE IF IsSpace(Head(s)) THEN LStrip(Tail(s)) ELSE s

RECURSIVE RStrip(_)
RStrip(s) ==
    IF s = <<>> THEN s
    ELSE IF IsSpace(s[Len(s)]) THEN RStrip(SubSeq(s, 1, Len(s) - 1)) ELSE s

\* str.strip()
Strip(s) == RStrip(LStrip(s))

\* Python truthiness of an Optional[str].
Truthy(v) == v # None /\ v # <<>>

(* ------------------------------------------------------------------ *)
(* State                                                               *)
(* ------------------------------------------------------------------ *)

VARIABLES
    store,                    \* MetadataStore.data
    current,                  \* MetadataParser.current
    pending_metadata,         \* MetadataParser.pending_metadata
    in_metadata_bundle,       \* MetadataParser.in_metadata_bundle
    in_artwork_bundle,        \* MetadataParser.in_artwork_bundle
    last_artwork_load_time,   \* MetadataParser.last_artwork_load_time
    last_loaded_cache_file,   \* MetadataParser.last_loaded_cache_file
    pc,                       \* position of the pipe-monitor thread
    updated,                  \* parse_item: local `updated` / return value
    current_state,            \* parse_item: local `current_state`
    meta_obj,                 \* send_metadata_update: local `meta_obj`
    out,                      \* notification written to stdout by this step
    now,                      \* time.time()
    ev,                       \* history: the item being processed
    recv,                     \* history: last non-empty value per field in the open bundle
    pendStale,                \* history: pending value predates the last track change
    storeStale,               \* history: store value predates the last track change
    lastFile,                 \* history: name of the cache file last read
    trackChangedSinceLoad,    \* history: a track change happened after that read
    seen,                     \* reader thread: what get_all returned
    lock,                     \* MetadataStore.lock: "free" or the thread holding it
    upd,                      \* threads inside MetadataStore.update
    rd,                       \* main thread inside / after MetadataStore.get_all
    serial,                   \* history: the completed update calls applied one by one
    tmp,                      \* monitor_metadata_pipe: the reassembly buffer `tmp`
    item,                     \* the item_xml handed to parse_item, not yet returned
    dbus_interface,           \* DBusMonitor.dbus_interface is not None
    conn,                     \* the thread running DBusMonitor._connect_with_retry
    poll,                     \* the thread running poll_progress
    cmd,                      \* the main thread in run() / handle_command
    bridge,                   \* gmrender-metadata-bridge.py: locals of tail_follow_log
    metadata_file,            \* METADATA_FILE (/tmp/dlna-metadata.json)
    dlna                      \* dlna-control-script.py: store and metadata monitor

parserVars == <<current, pending_metadata, in_metadata_bundle, in_artwork_bundle,
                last_artwork_load_time, last_loaded_cache_file>>
localVars == <<updated, current_state, meta_obj>>
histVars == <<recv, pendStale, storeStale, lastFile, trackChangedSinceLoad>>
lockVars == <<lock, upd, rd, serial>>
pipeVars == <<tmp, item>>
dlnaVars == <<bridge, metadata_file, dlna>>
threadVars == <<dbus_interface, conn, poll, cmd, dlnaVars>>
monitorVars == <<parserVars, pc, localVars, out, histVars, seen, lockVars, pipeVars,
                 dlnaVars>>
vars == <<store, parserVars, pc, localVars, out, now, ev, histVars, seen, lockVars,
          pipeVars, threadVars>>

NoFields == [f \in Fields |-> None]
AllFalse == [f \in Fields |-> FALSE]

\* The value of meta_obj when get_metadata_for_snapcast returned None.
NoMeta == [absent |-> TRUE]

\* No notification on stdout.
NoOut == [absent |-> TRUE]

(* ------------------------------------------------------------------ *)
(* DLNA: values of the metadata bridge and of the control script       *)
(* ------------------------------------------------------------------ *)

\* A Python dict with text keys is the function on the keys it holds; {} is
\* the function on no key.
EmptyDict == [k \in {} |-> None]

\* The metadata file does not exist.
NoFile == [absent |-> TRUE]

\* Times the metadata file is written in a run.
MaxWrites == 4

\* The values gmrender logs after "TransportState:"; the bridge knows four.
TransportStates == {"PLAYING", "PAUSED_PLAYBACK", "PAUSED", "STOPPED", "TRANSITIONING"}

\* tail_follow_log before its first line. `line` and `state` are history: the
\* kind of the line processed last and the transport state it named.
BridgeStart ==
    [current_status |-> "Stopped", current_metadata |-> EmptyDict,
     line |-> "none", state |-> "none"]

\* MetadataStore.data of the DLNA control script at construction (artUrl,
\* duration, position and last_updated left out: no step here reads them).
DlnaInitialData ==
    [title |-> None, artist |-> None, album |-> None, playback_status |-> "Stopped"]

\* The DLNA control script after start(): the store, the locals of
\* _monitor_metadata_file, and the notification its last pass printed.
DlnaStart ==
    [data |-> DlnaInitialData, last_mtime |-> 0, last_metadata |-> NoMeta,
     out |-> NoOut]

\* The reader thread has not read yet.
NoSeen == [data |-> NoFields, midFlush |-> FALSE, pre |-> NoFields, post |-> NoFields]

EvNone ==
    [code |-> "none", inBundle |-> FALSE, empty |-> FALSE, applied |-> FALSE,
     statusAtEntry |-> "Stopped", updates |-> 0, signalled |-> FALSE, sent |-> FALSE,
     change |-> FALSE, since |-> 0, artBefore |-> None, hadTitle |-> FALSE,
     sameFile |-> FALSE, noChangeSinceLoad |-> FALSE, read |-> FALSE,
     pre |-> NoFields, mergedStale |-> FALSE, blank |-> FALSE, resolved |-> FALSE,
     id |-> None, firstOrSame |-> FALSE, pendPre |-> NoFields,
     missing |-> FALSE, unreadable |-> FALSE, loadTimePre |-> NoTime,
     during |-> {}, overtaken |-> FALSE, sentOld |-> FALSE, value |-> None]

\* MetadataStore.__init__: self.data
InitialData ==
    [title |-> None, artist |-> None, album |-> None, track_id |-> None,
     artwork_url |-> None, last_updated |-> NoTime,
     playback_status |-> "Stopped", duration |-> NoDuration, position |-> 0]

\* Threads that call MetadataStore.update: the pipe monitor (parse_item) and
\* the D-Bus progress poller.
UpdateThreads == {"monitor", "poller"}

\* A thread that is not inside MetadataStore.update.
NotCalling == [pc |-> "out", kwargs |-> <<>>, todo |-> {}]

\* The main thread is not holding a value returned by get_all.
NotReading ==
    [pc |-> "out", ret |-> [live |-> FALSE, val |-> InitialData],
     at |-> InitialData, midUpdate |-> FALSE, modified |-> FALSE]

\* parse_item is not running.
NoItem == [absent |-> TRUE]

\* _connect_with_retry has not succeeded yet; overrode: history, the status
\* its store.update replaced; notified: history, the playbackStatus its
\* send_playback_state_update printed.
NotConnected ==
    [pc |-> "connecting", mpris_interface |-> FALSE, overrode |-> "none",
     notified |-> "none"]

\* poll_progress is not running (it is started by _connect_with_retry).
\* out: the notification its send_metadata_update printed in this round; during:
\* history, the store contents that existed while that notification was being
\* built; overtaken: history, another thread printed a notification built
\* from a newer store while this one was being built; sentOld: history, this
\* thread printed its notification after that.
NotPolling ==
    [pc |-> "off", last_position |-> 0 - 1, update_counter |-> 0, meta_obj |-> NoMeta,
     out |-> NoOut, during |-> {}, overtaken |-> FALSE, sentOld |-> FALSE]

\* run() is waiting for a line on stdin. request: the line being handled;
\* during: history, the store contents that existed while the response was
\* being built; responses, notifications, updates: history of what the
\* handler has done for this line; available: history, is_available() when
\* the Control branch was entered; result: the GetProperties result printed;
\* sent: the notification its send_metadata_update printed.
NotHandling ==
    [pc |-> "stdin", request |-> [kind |-> "none"], current_state |-> "none",
     available |-> FALSE,
     meta_obj |-> NoMeta, during |-> {}, overtaken |-> FALSE, sentOld |-> FALSE,
     responses |-> <<>>, notifications |-> 0, updates |-> 0, result |-> NoOut,
     sent |-> NoOut]

\* MetadataParser.__init__ and the threads before their first step.
InitParser ==
    /\ current = [title |-> None, artist |-> None, album |-> None, track_id |-> None]
    /\ pending_metadata = NoFields
    /\ in_metadata_bundle = FALSE
    /\ in_artwork_bundle = FALSE
    /\ last_artwork_load_time = 0
    /\ last_loaded_cache_file = None
    /\ updated = FALSE
    /\ current_state = "Stopped"
    /\ meta_obj = NoMeta
    /\ out = NoOut
    /\ now = StartTime
    /\ recv = NoFields
    /\ pendStale = AllFalse
    /\ storeStale = AllFalse
    /\ lastFile = None
    /\ trackChangedSinceLoad = FALSE
    /\ seen = NoSeen
    /\ lock = "free"
    /\ upd = [t \in UpdateThreads |-> NotCalling]
    /\ rd = NotReading
    /\ serial = InitialData
    /\ tmp = <<>>
    /\ item = NoItem
    /\ dbus_interface = FALSE
    /\ conn = NotConnected
    /\ poll = NotPolling
    /\ cmd = NotHandling
    /\ bridge = BridgeStart
    /\ metadata_file = NoFile
    /\ dlna = DlnaStart

Init ==
    /\ store = InitialData
    /\ InitParser
    /\ pc = "idle"
    /\ ev = EvNone

(* ------------------------------------------------------------------ *)
(* MetadataStore                                                       *)
(* ------------------------------------------------------------------ *)

\* MetadataStore.update(**kwargs) at time t: one critical section.
Update(s, kwargs, t) ==
    [k \in DOMAIN s |->
        IF k = "last_updated" THEN t
        ELSE IF k \in DOMAIN kwargs THEN kwargs[k] ELSE s[k]]

\* MetadataStore.get_all(): a copy of the data.
GetAll(s) == s

\* MetadataStore.get_metadata_for_snapcast()
MetaKeysAll(s) == {"title", "artist", "album", "artUrl", "duration"}
MetaKeys(s) ==
    {"title"}
    \cup (IF Truthy(s.artist) THEN {"artist"} ELSE {})
    \cup (IF Truthy(s.album) THEN {"album"} ELSE {})
    \cup (IF Truthy(s.artwork_url) THEN {"artUrl"} ELSE {})
    \cup (IF TruthyInt(s.duration) THEN {"duration"} ELSE {})

GetMetadataForSnapcast(s) ==
    IF Truthy(s.title)
    THEN [k \in MetaKeys(s) |->
            CASE k = "title" -> s.title
              [] k = "artist" -> <<s.artist>>
              [] k = "album" -> s.album
              [] k = "artUrl" -> s.artwork_url
              [] k = "duration" -> s.duration]
    ELSE NoMeta

TAA(s) == [f \in Fields |-> s[f]]

(* ------------------------------------------------------------------ *)
(* Pipe-monitor thread: bookkeeping shared by the handlers             *)
(* ------------------------------------------------------------------ *)

\* parse_item is entered with a decoded item whose code is `code`.
Begin(code) ==
    [EvNone EXCEPT !.code = code,
                   !.inBundle = in_metadata_bundle,
                   !.statusAtEntry = store.playback_status]

\* parse_item returns `ret`; monitor_metadata_pipe calls send_metadata_update
\* when it is True.
AfterReturnNever(ret) == "done"
AfterReturn(ret) == IF ret THEN "send_meta" ELSE "done"

\* What a Plugin.Stream.Player.Properties message shows of the store `s`.
Snapshot(s) ==
    [metadata |-> GetMetadataForSnapcast(s),
     playbackStatus |-> GetAll(s).playback_status,
     position |-> GetAll(s).position]

\* History: the store contents `s` came to exist while the poller, the main
\* thread or the pipe monitor was between the two reads of a message.
SeenByPoller(p, s) ==
    IF p.pc = "send_all" THEN [p EXCEPT !.during = @ \cup {Snapshot(s)}] ELSE p
SeenByCommand(c, s) ==
    IF c.pc \in {"get_all", "seek_send_all"}
    THEN [c EXCEPT !.during = @ \cup {Snapshot(s)}] ELSE c
SeenByMonitor(e, s) ==
    IF pc = "send_all" THEN [e EXCEPT !.during = @ \cup {Snapshot(s)}] ELSE e

\* The histories stay within MaxDuring.
Bounded(during) == Cardinality(during) <= MaxDuring

\* History: a thread prints a notification built from the store as it is now
\* (`mine`) while another thread, at `other_pc`, holds metadata `theirs` that
\* it read from an earlier store and has not printed yet.
Overtakes(other_pc, theirs, mine) ==
    /\ other_pc = "send_all"
    /\ theirs # GetMetadataForSnapcast(store)
    /\ mine = GetMetadataForSnapcast(store)

\* A step of the pipe monitor that may write the store: the other threads'
\* variables change in their history fields only.
Watched ==
    /\ poll' = SeenByPoller(poll, store')
    /\ cmd' = SeenByCommand(cmd, store')
    /\ Bounded(poll'.during)
    /\ Bounded(cmd'.during)
    /\ UNCHANGED <<dbus_interface, conn, dlnaVars>>

\* Time passes.
Tick ==
    /\ now < MaxTime
    /\ now' = now + 1
    /\ UNCHANGED <<store, parserVars, pc, localVars, out, ev, histVars, seen, lockVars, pipeVars, threadVars>>

(* ------------------------------------------------------------------ *)
(* Metadata bundle: mdst ... mden                                      *)
(* ------------------------------------------------------------------ *)

\* ssnc/mdst
Mdst ==
    /\ pc = "idle"
    /\ in_metadata_bundle' = TRUE
    /\ pending_metadata' = NoFields
    /\ pc' = "done"
    /\ ev' = Begin("mdst")
    /\ recv' = NoFields
    /\ pendStale' = AllFalse
    /\ UNCHANGED <<store, current, in_artwork_bundle, last_artwork_load_time,
                   last_loaded_cache_file, localVars, out, now, storeStale, lastFile,
                   trackChangedSinceLoad, seen, lockVars, pipeVars, threadVars>>

\* `if self.pending_metadata[f]:` at mden
FlushAppliesAlways(v) == TRUE
FlushApplies(v) == Truthy(v)

\* One `if self.pending_metadata[f]: ... self.store.update(f=...)` block of mden.
\* `e` is the history record to extend.
FlushField(f, e) ==
    LET apply == FlushApplies(pending_metadata[f]) IN
    /\ current' = IF apply THEN [current EXCEPT ![f] = pending_metadata[f]] ELSE current
    /\ store' = IF apply THEN Update(store, f :> pending_metadata[f], now) ELSE store
    /\ updated' = (updated \/ apply)
    /\ ev' = [e EXCEPT !.updates = IF apply THEN @ + 1 ELSE @,
                       !.mergedStale = @ \/ (apply /\ pendStale[f])]
    /\ storeStale' = IF apply THEN [storeStale EXCEPT ![f] = pendStale[f]] ELSE storeStale

\* ssnc/mden: the bundle is closed and the title block runs.
Mden ==
    /\ pc = "idle"
    /\ in_metadata_bundle' = FALSE
    /\ FlushField("title",
                  [Begin("mden") EXCEPT
                      !.pre = TAA(store),
                      !.empty = \A f \in Fields : ~Truthy(pending_metadata[f]),
                      !.applied = \A f \in Fields :
                          Truthy(pending_metadata[f]) => store[f] = pending_metadata[f]])
    /\ pc' = "mden_artist"
    /\ UNCHANGED <<pending_metadata, in_artwork_bundle, last_artwork_load_time,
                   last_loaded_cache_file, current_state, meta_obj, out, now, recv,
                   pendStale, lastFile, trackChangedSinceLoad, seen, lockVars, pipeVars>>
    /\ Watched

MdenArtist ==
    /\ pc = "mden_artist"
    /\ FlushField("artist", ev)
    /\ pc' = "mden_album"
    /\ UNCHANGED <<pending_metadata, in_metadata_bundle, in_artwork_bundle,
                   last_artwork_load_time, last_loaded_cache_file, current_state,
                   meta_obj, out, now, recv, pendStale, lastFile,
                   trackChangedSinceLoad, seen, lockVars, pipeVars>>
    /\ Watched

MdenAlbum ==
    /\ pc = "mden_album"
    /\ FlushField("album", ev)
    /\ pc' = "mden_get"
    /\ UNCHANGED <<pending_metadata, in_metadata_bundle, in_artwork_bundle,
                   last_artwork_load_time, last_loaded_cache_file, current_state,
                   meta_obj, out, now, recv, pendStale, lastFile,
                   trackChangedSinceLoad, seen, lockVars, pipeVars>>
    /\ Watched

\* current_state = self.store.get_all().get("playback_status", "Stopped")
MdenGetState ==
    /\ pc = "mden_get"
    /\ current_state' = GetAll(store).playback_status
    /\ pc' = "mden_status"
    /\ UNCHANGED <<store, parserVars, updated, meta_obj, out, now, ev, histVars, seen, lockVars, pipeVars, threadVars>>

\* `if current_state != "Playing":` at mden
NeedsPlayingAlways(cs) == TRUE
NeedsPlaying(cs) == cs # "Playing"

\* if current_state != "Playing": update(playback_status="Playing"); return updated
MdenSetPlaying ==
    /\ pc = "mden_status"
    /\ LET set == NeedsPlaying(current_state) IN
        /\ store' = IF set THEN Update(store, [playback_status |-> "Playing"], now)
                    ELSE store
        /\ updated' = (updated \/ set)
        /\ ev' = [ev EXCEPT !.updates = IF set THEN @ + 1 ELSE @,
                            !.signalled = updated \/ set]
        /\ pc' = AfterReturn(updated \/ set)
    /\ UNCHANGED <<parserVars, current_state, meta_obj, out, now, histVars, seen, lockVars, pipeVars>>
    /\ Watched

(* ------------------------------------------------------------------ *)
(* send_metadata_update and the loop of monitor_metadata_pipe          *)
(* ------------------------------------------------------------------ *)

\* meta_obj = self.store.get_metadata_for_snapcast(); if meta_obj: ...
SendMeta ==
    /\ pc = "send_meta"
    /\ meta_obj' = GetMetadataForSnapcast(store)
    /\ pc' = IF meta_obj' = NoMeta THEN "done" ELSE "send_all"
    /\ ev' = [ev EXCEPT !.during = {Snapshot(store)}]
    /\ UNCHANGED <<store, parserVars, updated, current_state, out, now, histVars,
                   seen, lockVars, pipeVars, threadVars>>

\* state_data = self.store.get_all(); send_notification(...)
SendAll ==
    /\ pc = "send_all"
    /\ out' = [method |-> "Plugin.Stream.Player.Properties",
               playbackStatus |-> GetAll(store).playback_status,
               position |-> GetAll(store).position,
               metadata |-> meta_obj]
    /\ ev' = [ev EXCEPT !.sent = TRUE,
                        !.during = @ \cup {Snapshot(store)},
                        !.sentOld = ev.overtaken]
    /\ poll' = [poll EXCEPT !.overtaken = @ \/ Overtakes(poll.pc, poll.meta_obj, meta_obj)]
    /\ cmd' = [cmd EXCEPT !.overtaken =
                              @ \/ Overtakes(IF cmd.pc = "seek_send_all" THEN "send_all"
                                             ELSE "other", cmd.meta_obj, meta_obj)]
    /\ pc' = "done"
    /\ UNCHANGED <<store, parserVars, localVars, now, histVars, seen, lockVars, pipeVars,
                   dbus_interface, conn, dlnaVars>>

\* `for line in pipe:` goes on to the next item.
EndOfItem ==
    /\ pc = "done"
    /\ pc' = "idle"
    /\ updated' = FALSE
    /\ current_state' = "Stopped"
    /\ meta_obj' = NoMeta
    /\ out' = NoOut
    /\ ev' = EvNone
    /\ recv' = IF ev.code = "mden" THEN NoFields ELSE recv
    /\ UNCHANGED <<store, parserVars, now, pendStale, storeStale, lastFile,
                   trackChangedSinceLoad, seen, lockVars, threadVars>>

NextLine == EndOfItem /\ UNCHANGED pipeVars

(* ------------------------------------------------------------------ *)
(* Metadata fields (core): minm, asar, asal                            *)
(* ------------------------------------------------------------------ *)

\* `elif code == "minm" and decoded.strip():`
AcceptsFieldAny(decoded) == TRUE
AcceptsField(decoded) == Truthy(Strip(decoded))

\* `if self.in_metadata_bundle:` in the minm/asar/asal branches.
KeepsPendingNever(in_bundle) == FALSE
KeepsPending(in_bundle) == in_bundle

\* self.store.update(title=decoded.strip()): the keyword arguments.
FieldKwargsNothing(f, value) == <<>>
FieldKwargs(f, value) == f :> value

\* A title/artist/album item: kept pending inside a bundle, written to the
\* store at once outside.
FieldItem(code, f, decoded) ==
    /\ pc = "idle"
    /\ LET value == Strip(decoded)
           e == [Begin(code) EXCEPT !.blank = (Strip(decoded) = <<>>),
                                    !.value = Strip(decoded)] IN
        IF AcceptsField(decoded)
        THEN IF KeepsPending(in_metadata_bundle)
             THEN /\ pending_metadata' = [pending_metadata EXCEPT ![f] = value]
                  /\ pendStale' = [pendStale EXCEPT ![f] = FALSE]
                  /\ pc' = AfterReturn(FALSE)
                  /\ ev' = e
                  /\ UNCHANGED <<store, current, updated, storeStale>>
             ELSE /\ current' = [current EXCEPT ![f] = value]
                  /\ store' = Update(store, FieldKwargs(f, value), now)
                  /\ storeStale' = [storeStale EXCEPT ![f] = FALSE]
                  /\ updated' = TRUE
                  /\ pc' = AfterReturn(TRUE)
                  /\ ev' = [e EXCEPT !.updates = 1, !.signalled = TRUE]
                  /\ UNCHANGED <<pending_metadata, pendStale>>
        ELSE /\ pc' = AfterReturn(FALSE)
             /\ ev' = e
             /\ UNCHANGED <<store, current, pending_metadata, updated, pendStale,
                            storeStale>>
    /\ recv' = IF in_metadata_bundle /\ Strip(decoded) # <<>>
               THEN [recv EXCEPT ![f] = Strip(decoded)]
               ELSE recv
    /\ UNCHANGED <<in_metadata_bundle, in_artwork_bundle, last_artwork_load_time,
                   last_loaded_cache_file, current_state, meta_obj, out, now, lastFile,
                   trackChangedSinceLoad, seen, lockVars, pipeVars>>
    /\ Watched

Minm == \E decoded \in Payloads : FieldItem("minm", "title", decoded)

Asar == \E decoded \in Payloads : FieldItem("asar", "artist", decoded)

Asal == \E decoded \in Payloads : FieldItem("asal", "album", decoded)

(* ------------------------------------------------------------------ *)
(* Track identity (core/mper)                                          *)
(* ------------------------------------------------------------------ *)

\* should_clear_artwork = time_since_artwork > 2.0
ShouldClearArtworkAtWindow(time_since_artwork) == time_since_artwork >= GraceWindow
ShouldClearArtwork(time_since_artwork) == time_since_artwork > GraceWindow

\* The keyword arguments of the single store.update of a track change.
TrackChangeKwargsKeepText(track_id, should_clear_artwork) ==
    IF should_clear_artwork
    THEN [track_id |-> track_id, artwork_url |-> None]
    ELSE [track_id |-> track_id]
TrackChangeKwargs(track_id, should_clear_artwork) ==
    IF should_clear_artwork
    THEN [title |-> None, artist |-> None, album |-> None, track_id |-> track_id,
          artwork_url |-> None]
    ELSE [title |-> None, artist |-> None, album |-> None, track_id |-> track_id]

\* `if self.current['track_id'] and self.current['track_id'] != track_id:`
IsTrackChangeAlways(current_id, track_id) == current_id # track_id
IsTrackChange(current_id, track_id) == Truthy(current_id) /\ current_id # track_id

\* The keyword arguments of store.update when the id is the first one or the
\* current one again.
AdoptKwargsNothing(track_id) == <<>>
AdoptKwargs(track_id) == [track_id |-> track_id]

\* self.last_loaded_cache_file = None in the track-change branch.
TrackerAfterChangeKept(tracker) == tracker
TrackerAfterChange(tracker) == None

MperItem(decoded) ==
    /\ pc = "idle"
    /\  LET track_id == Strip(decoded)
            e == [Begin("mper") EXCEPT
                    !.id = IF Truthy(Strip(decoded)) THEN Strip(decoded) ELSE None,
                    !.firstOrSame = /\ Truthy(Strip(decoded))
                                    /\ store.track_id \in {None, Strip(decoded)}] IN
        IF decoded # <<>> /\ track_id # <<>>
        THEN IF IsTrackChange(current.track_id, track_id)
             THEN LET time_since_artwork == now - last_artwork_load_time IN
                  /\ current' = [title |-> None, artist |-> None, album |-> None,
                                 track_id |-> track_id]
                  /\ last_loaded_cache_file' = TrackerAfterChange(last_loaded_cache_file)
                  /\ store' = Update(store,
                                     TrackChangeKwargs(track_id,
                                         ShouldClearArtwork(time_since_artwork)),
                                     now)
                  /\ updated' = TRUE
                  /\ pc' = AfterReturn(TRUE)
                  /\ ev' = [e EXCEPT !.change = TRUE, !.updates = 1, !.signalled = TRUE,
                                     !.since = time_since_artwork,
                                     !.artBefore = store.artwork_url,
                                     !.hadTitle = Truthy(store.title)]
                  /\ pendStale' = [f \in Fields |-> Truthy(pending_metadata[f])]
                  /\ storeStale' = AllFalse
                  /\ trackChangedSinceLoad' = TRUE
             ELSE /\ current' = [current EXCEPT !.track_id = track_id]
                  /\ store' = Update(store, AdoptKwargs(track_id), now)
                  /\ pc' = AfterReturn(FALSE)
                  /\ ev' = [e EXCEPT !.updates = 1, !.pre = TAA(store),
                                     !.artBefore = store.artwork_url,
                                     !.pendPre = pending_metadata]
                  /\ UNCHANGED <<last_loaded_cache_file, updated, pendStale, storeStale,
                                 trackChangedSinceLoad>>
        ELSE /\ pc' = AfterReturn(FALSE)
             /\ ev' = e
             /\ UNCHANGED <<store, current, last_loaded_cache_file, updated, pendStale,
                            storeStale, trackChangedSinceLoad>>
    /\ UNCHANGED <<pending_metadata, in_metadata_bundle, in_artwork_bundle,
                   last_artwork_load_time, current_state, meta_obj, out, now, recv,
                   lastFile, seen, lockVars, pipeVars>>
    /\ Watched

Mper == \E decoded \in Payloads : MperItem(decoded)

(* ------------------------------------------------------------------ *)
(* Playback state (ssnc): pbeg, prsm, paus, pfls, pend                 *)
(* ------------------------------------------------------------------ *)

PlaybackCodes == {"pbeg", "prsm", "paus", "pfls", "pend"}

\* The status each playback item asks for.
TargetStatus(code) ==
    CASE code \in {"pbeg", "prsm"} -> "Playing"
      [] code \in {"paus", "pfls"} -> "Paused"
      [] code = "pend" -> "Stopped"

\* current_state = self.store.get_all().get("playback_status", ...)
PlaybackItemOf(code) ==
    /\ pc = "idle"
    /\ ev' = Begin(code)
    /\ current_state' = GetAll(store).playback_status
    /\ pc' = "state_update"
    /\ UNCHANGED <<store, parserVars, updated, meta_obj, out, now, histVars, seen, lockVars, pipeVars, threadVars>>

PlaybackItem == \E code \in PlaybackCodes : PlaybackItemOf(code)

\* if current_state != target: update(playback_status=target); return True
StateUpdate ==
    /\ pc = "state_update"
    /\ LET target == TargetStatus(ev.code)
           set == current_state # target IN
        /\ store' = IF set THEN Update(store, [playback_status |-> target], now)
                    ELSE store
        /\ updated' = set
        /\ ev' = [ev EXCEPT !.updates = IF set THEN 1 ELSE 0, !.signalled = set]
        /\ pc' = AfterReturn(set)
    /\ UNCHANGED <<parserVars, current_state, meta_obj, out, now, histVars, seen, lockVars, pipeVars>>
    /\ Watched

(* ------------------------------------------------------------------ *)
(* Artwork (ssnc): pcst ... pcen                                       *)
(* ------------------------------------------------------------------ *)

\* ssnc/pcst
Pcst ==
    /\ pc = "idle"
    /\ in_artwork_bundle' = TRUE
    /\ pc' = AfterReturn(FALSE)
    /\ ev' = Begin("pcst")
    /\ UNCHANGED <<store, current, pending_metadata, in_metadata_bundle,
                   last_artwork_load_time, last_loaded_cache_file, localVars, out, now,
                   histVars, seen, lockVars, pipeVars, threadVars>>

\* mimetypes.guess_type(...)[0] or 'image/jpeg'
MimeType(file) == IF file[2] = "png" THEN "image/png" ELSE "image/jpeg"

\* f"data:{mime_type};base64,{...}": the file's content stands for its encoding.
DataUrl(file) == <<"data:", MimeType(file), ";base64,", file[1]>>

\* `if self.last_loaded_cache_file == newest_file.name: return None`
AlreadyLoadedNever(tracker, name) == FALSE
AlreadyLoaded(tracker, name) == tracker = name

\* _load_artwork_from_cache returns a data URL: the file was not skipped and
\* reading it raised nothing.
ArtworkLoadedUnread(skip, readable) == ~skip
ArtworkLoaded(skip, readable) == ~skip /\ readable

\* ssnc/pcen: _load_artwork_from_cache, then the store update. `newest` is the
\* newest cover file of the cache (None: no directory or no file), `readable`
\* whether reading it succeeds.
Pcen ==
    /\ pc = "idle"
    /\ in_artwork_bundle' = FALSE
    /\ \E newest \in CacheFiles \cup {None}, readable \in BOOLEAN :
        LET skip == newest = None \/ AlreadyLoaded(last_loaded_cache_file, newest)
            loaded == ArtworkLoaded(skip, readable)
            e == [Begin("pcen") EXCEPT
                    !.sameFile = (newest # None /\ newest = lastFile),
                    !.noChangeSinceLoad = ~trackChangedSinceLoad,
                    !.artBefore = store.artwork_url,
                    !.read = ~skip,
                    !.missing = (newest = None),
                    !.unreadable = ~readable,
                    !.loadTimePre = last_artwork_load_time,
                    !.resolved = (newest # None /\ newest # last_loaded_cache_file
                                  /\ readable)] IN
        IF loaded
        THEN /\ last_loaded_cache_file' = newest
             /\ last_artwork_load_time' = now
             /\ store' = Update(store, [artwork_url |-> DataUrl(newest)], now)
             /\ updated' = TRUE
             /\ pc' = AfterReturn(TRUE)
             /\ ev' = [e EXCEPT !.updates = 1, !.signalled = TRUE]
             /\ lastFile' = newest
             /\ trackChangedSinceLoad' = FALSE
        ELSE /\ pc' = AfterReturn(FALSE)
             /\ ev' = e
             /\ UNCHANGED <<store, last_loaded_cache_file, last_artwork_load_time,
                            updated, lastFile, trackChangedSinceLoad>>
    /\ UNCHANGED <<current, pending_metadata, in_metadata_bundle, current_state,
                   meta_obj, out, now, recv, pendStale, storeStale, seen, lockVars, pipeVars>>
    /\ Watched

(* ------------------------------------------------------------------ *)
(* A reader on another thread                                          *)
(* ------------------------------------------------------------------ *)

\* Positions of the pipe-monitor thread between the first and the last
\* store.update of mden.
MdenPcs == {"mden_artist", "mden_album"}

\* What the store holds once every pending field of the bundle is merged.
Merged(before, pend) ==
    [f \in Fields |-> IF Truthy(pend[f]) THEN pend[f] ELSE before[f]]

\* MetadataStore.get_all() called from another thread (the command thread or
\* the progress poller): the copy it returns, with what the bundle being
\* flushed at that instant started from and leads to.
ReaderGetAll ==
    /\ seen' = [data |-> TAA(GetAll(store)),
                midFlush |-> pc \in MdenPcs,
                pre |-> IF pc \in MdenPcs THEN ev.pre ELSE NoFields,
                post |-> IF pc \in MdenPcs THEN Merged(ev.pre, pending_metadata)
                         ELSE NoFields]
    /\ UNCHANGED <<store, parserVars, pc, localVars, out, now, ev, histVars, lockVars, pipeVars, threadVars>>

(* ------------------------------------------------------------------ *)
(* parse_item: decoding an item record                                 *)
(* ------------------------------------------------------------------ *)

\* The text handed to parse_item, as the sequence of its markup pieces.
ItemOpen == <<"<item>">>
ItemClose == <<"</item>">>
TypeElem(hex) == <<"type", hex>>
CodeElem(hex) == <<"code", hex>>
\* <data encoding="base64">text</data>
DataElem(text) == <<"data", text>>
\* <data encoding="base64">text    (cut before the closing tag)
DataCut(text) == <<"data<", text>>
\* characters that are no markup
Junk == <<"junk">>

\* An element or attribute that is not there.
Absent == "<absent>"

\* The text is one <item> element: opened first, closed last, with complete
\* child elements and character data in between.
WholeRecord(toks) ==
    /\ Len(toks) >= 2
    /\ toks[1] = ItemOpen
    /\ toks[Len(toks)] = ItemClose
    /\ \A i \in 2..(Len(toks) - 1) : toks[i][1] \in {"type", "code", "data", "junk"}

\* root.find(tag): the text of the first child with that tag.
RECURSIVE Find(_, _)
Find(toks, tag) ==
    IF toks = <<>> THEN Absent
    ELSE IF Head(toks)[1] = tag THEN Head(toks)[2]
    ELSE Find(Tail(toks), tag)

\* ET.fromstring(item_xml) and the three root.find calls; ok = FALSE stands for
\* ET.ParseError.
XmlParseRecover(toks) ==
    [ok |-> TRUE, type |-> Find(toks, "type"), code |-> Find(toks, "code"),
     data |-> IF Find(toks, "data") = Absent THEN Find(toks, "data<")
              ELSE Find(toks, "data")]
XmlParse(toks) ==
    IF WholeRecord(toks)
    THEN [ok |-> TRUE, type |-> Find(toks, "type"), code |-> Find(toks, "code"),
          data |-> Find(toks, "data")]
    ELSE [ok |-> FALSE, type |-> Absent, code |-> Absent, data |-> Absent]

\* bytes.fromhex(text).decode('ascii', errors='ignore') for the texts used
\* here; a byte outside ASCII (ff) is left out of the result.
HexAscii(hex) ==
    CASE hex = "73736e63" -> "ssnc"
      [] hex = "636f7265" -> "core"
      [] hex = "6d647374" -> "mdst"
      [] hex = "6d64656e" -> "mden"
      [] hex = "ff6d64656e" -> "mden"
      [] hex = "70637374" -> "pcst"
      [] hex = "7063656e" -> "pcen"
      [] hex = "70766f6c" -> "pvol"
      [] hex = "6d696e6d" -> "minm"
      [] hex = "61736172" -> "asar"
      [] hex = "6173616c" -> "asal"
      [] hex = "6d706572" -> "mper"
      [] hex = "70626567" -> "pbeg"
      [] hex = "7072736d" -> "prsm"
      [] hex = "70617573" -> "paus"
      [] hex = "70666c73" -> "pfls"
      [] hex = "70656e64" -> "pend"

\* The texts bytes.fromhex accepts; on any other it raises ValueError.
HexTexts ==
    {"73736e63", "636f7265", "6d647374", "6d64656e", "ff6d64656e", "70637374",
     "7063656e", "70766f6c", "6d696e6d", "61736172", "6173616c", "6d706572",
     "70626567", "7072736d", "70617573", "70666c73", "70656e64"}

\* base64.b64decode(data_text).decode('utf-8', errors='ignore'), with the bare
\* `except:` that turns a decoding error into "".
Base64Texts == {"QQ==", "Qg==", "IA==", "IEEg"}
Base64Decode(text) ==
    CASE text = "QQ==" -> <<"A">>
      [] text = "Qg==" -> <<"B">>
      [] text = "IA==" -> <<" ">>
      [] text = "IEEg" -> <<" ", "A", " ">>
      [] OTHER -> <<>>

\* Lines 164-186 of parse_item: the exception raised, if any, and otherwise
\* item_type, code and decoded; `returned` is the early `return False`.
Decode(item_xml) ==
    LET p == XmlParse(item_xml)
        none == [exc |-> "none", returned |-> FALSE, item_type |-> "", code |-> "",
                 decoded |-> <<>>] IN
    IF ~p.ok THEN [none EXCEPT !.exc = "ParseError"]
    ELSE IF p.code = Absent THEN [none EXCEPT !.returned = TRUE]
    ELSE IF p.type # Absent /\ p.type \notin HexTexts THEN [none EXCEPT !.exc = "ValueError"]
    ELSE IF p.code \notin HexTexts THEN [none EXCEPT !.exc = "ValueError"]
    ELSE [none EXCEPT
            !.item_type = IF p.type = Absent THEN "" ELSE HexAscii(p.type),
            !.code = HexAscii(p.code),
            !.decoded = IF p.data # Absent /\ p.data # "" /\ HexAscii(p.code) # "PICT"
                        THEN Base64Decode(p.data) ELSE <<>>]

\* `except ET.ParseError: pass` and `except Exception as e: log(...)`.
CatchesParseErrorOnly(exc) == exc = "ParseError"
Catches(exc) == exc \in {"ParseError", "ValueError"}

\* parse_item returns False without having touched anything.
ReturnFalse(code) ==
    /\ pc' = AfterReturn(FALSE)
    /\ ev' = Begin(code)
    /\ UNCHANGED <<store, parserVars, localVars, out, now, histVars, seen, lockVars,
                   pipeVars, threadVars>>

\* An exception leaves parse_item: `except Exception` of monitor_metadata_pipe,
\* which is outside its `while True`, logs it and the thread ends.
PipeMonitorCrashed ==
    /\ pc' = "crashed"
    /\ ev' = Begin("raised")
    /\ UNCHANGED <<store, parserVars, localVars, out, now, histVars, seen, lockVars,
                   pipeVars, threadVars>>

\* parse_item(item_xml): decode, then the branch of the item's type and code.
ParseItem(item_xml) ==
    /\ pc = "idle"
    /\ LET d == Decode(item_xml) IN
       IF d.exc # "none"
       THEN IF Catches(d.exc) THEN ReturnFalse("dropped") ELSE PipeMonitorCrashed
       ELSE IF d.returned THEN ReturnFalse("dropped")
       ELSE IF d.item_type = "ssnc" /\ d.code = "mdst" THEN Mdst
       ELSE IF d.item_type = "ssnc" /\ d.code = "mden" THEN Mden
       ELSE IF d.item_type = "ssnc" /\ d.code \in PlaybackCodes
            THEN PlaybackItemOf(d.code)
       ELSE IF d.item_type = "ssnc" /\ d.code = "pcst" THEN Pcst
       ELSE IF d.item_type = "ssnc" /\ d.code = "pcen" THEN Pcen
       ELSE IF d.item_type = "core" /\ d.code = "mper" THEN MperItem(d.decoded)
       ELSE IF d.item_type = "core" /\ d.code = "minm"
            THEN FieldItem("minm", "title", d.decoded)
       ELSE IF d.item_type = "core" /\ d.code = "asar"
            THEN FieldItem("asar", "artist", d.decoded)
       ELSE IF d.item_type = "core" /\ d.code = "asal"
            THEN FieldItem("asal", "album", d.decoded)
       ELSE ReturnFalse("ignored")

\* An <item> with the given type, code and, unless Absent, base64 data.
Record(type, code, data) ==
    <<ItemOpen, TypeElem(type), CodeElem(code)>>
    \o (IF data = Absent THEN <<>> ELSE <<DataElem(data)>>)
    \o <<ItemClose>>

\* Records as shairport-sync writes them.
GoodRecords ==
    {Record("73736e63", "6d647374", Absent),
     Record("73736e63", "6d64656e", Absent),
     Record("636f7265", "6d696e6d", "QQ=="),
     Record("636f7265", "6d696e6d", "IEEg"),
     Record("636f7265", "6d706572", "QQ=="),
     Record("636f7265", "6d706572", "Qg==")}

\* Records damaged by the transport: cut before the data, inside the data or
\* before the closing tag, preceded by stray characters, without a code, or
\* with a type or code that is no hexadecimal text.
BadRecords ==
    {<<ItemOpen, TypeElem("636f7265"), CodeElem("6d696e6d")>>,
     <<ItemOpen, TypeElem("636f7265"), CodeElem("6d696e6d"), DataCut("Qg")>>,
     <<ItemOpen, TypeElem("636f7265"), CodeElem("6d696e6d"), DataElem("Qg==")>>,
     <<Junk>> \o Record("73736e63", "6d64656e", Absent),
     <<ItemOpen, TypeElem("73736e63"), ItemClose>>,
     Record("73736e63", "6d64zz", Absent),
     Record("zz", "6d696e6d", "Qg==")}

\* Whole records that are unusual without being damaged: data that is no
\* base64, a byte outside ASCII in the code, a code with no handler.
OddRecords ==
    {Record("636f7265", "6d696e6d", "Q"),
     Record("73736e63", "ff6d64656e", Absent),
     Record("73736e63", "70766f6c", "QQ==")}

\* The record cannot be read as an item: it is not one whole element, it has
\* no code, or its type or code is not hexadecimal.
Malformed(item_xml) ==
    \/ ~WholeRecord(item_xml)
    \/ Find(item_xml, "code") = Absent
    \/ Find(item_xml, "code") \notin HexTexts
    \/ Find(item_xml, "type") \notin HexTexts \cup {Absent}

\* parse_item is called with a record.
Hand ==
    /\ pc = "idle"
    /\ item = NoItem
    /\ \E item_xml \in GoodRecords \cup BadRecords \cup OddRecords :
          item' = [xml |-> item_xml, line |-> item_xml]
    /\ UNCHANGED <<store, parserVars, pc, localVars, out, now, ev, histVars, seen,
                   lockVars, tmp, threadVars>>

ParseStep ==
    /\ item # NoItem
    /\ ParseItem(item.xml)

\* Longest reassembly buffer followed, in markup pieces.
MaxTmp == 4

\* Lines of the pipe: records written on one line, the first line of a record
\* with data, the line with its data and closing tag, a line cut inside the
\* data, and stray characters.
Lines ==
    {Record("73736e63", "6d647374", Absent),
     Record("73736e63", "6d64656e", Absent),
     Record("73736e63", "7063656e", Absent),
     Record("73736e63", "6d64zz", Absent),
     <<ItemOpen, TypeElem("636f7265"), CodeElem("6d696e6d")>>,
     <<ItemOpen, TypeElem("636f7265"), CodeElem("6d706572")>>,
     <<DataElem("QQ=="), ItemClose>>,
     <<DataCut("Qg")>>,
     <<Junk>>}

\* strip_line.startswith("<item>") and strip_line.endswith("</item>")
StartsItem(line) == line[1] = ItemOpen
EndsItem(line) == line[Len(line)] = ItemClose

\* One turn of `for line in pipe:` up to the call of parse_item: the item_xml
\* handed to parse_item, if any, and the new buffer.
ReadLine ==
    /\ pc = "idle"
    /\ item = NoItem
    /\ \E line \in Lines :
          IF EndsItem(line)
          THEN /\ item' = [xml |-> tmp \o line, line |-> line]
               /\ tmp' = <<>>
          ELSE IF StartsItem(line)
          THEN /\ item' = IF tmp # <<>>
                          THEN [xml |-> tmp \o <<ItemClose>>, line |-> line]
                          ELSE NoItem
               /\ tmp' = line
          ELSE /\ Len(tmp \o line) <= MaxTmp
               /\ tmp' = tmp \o line
               /\ item' = NoItem
    /\ UNCHANGED <<store, parserVars, pc, localVars, out, now, ev, histVars, seen,
                   lockVars, threadVars>>

\* parse_item has returned and the notification, if any, is sent.
ItemDone ==
    /\ EndOfItem
    /\ item' = NoItem
    /\ UNCHANGED tmp

(* ------------------------------------------------------------------ *)
(* MetadataStore.lock: update and get_all step by step                 *)
(* ------------------------------------------------------------------ *)

\* The update calls the two threads make: prgr and a track change from the
\* pipe monitor, the polled progress from the poller.
UpdateCalls(t) ==
    IF t = "monitor"
    THEN {[duration |-> 1, position |-> 1],
          [title |-> None, artist |-> None, album |-> None, track_id |-> <<"B">>],
          [title |-> <<"A">>]}
    ELSE {[position |-> 2, duration |-> 2]}

\* threading.Lock: `with self.lock` enters only when nobody holds the lock.
LockFreeAlways(l) == TRUE
LockFree(l) == l = "free"

\* update: `with self.lock:` entered with the keyword arguments of the call.
UpdateAcquire(t) ==
    /\ upd[t].pc = "out"
    /\ LockFree(lock)
    /\ \E kwargs \in UpdateCalls(t) :
          upd' = [upd EXCEPT ![t] = [pc |-> "write", kwargs |-> kwargs,
                                     todo |-> DOMAIN kwargs]]
    /\ lock' = t
    /\ UNCHANGED <<store, parserVars, pc, localVars, out, now, ev, histVars, seen, pipeVars, threadVars,
                   rd, serial>>

\* update: self.data.update(kwargs) stores one key after the other.
UpdateWriteKey(t) ==
    /\ upd[t].pc = "write"
    /\ \E k \in upd[t].todo :
          /\ store' = [store EXCEPT ![k] = upd[t].kwargs[k]]
          /\ upd' = [upd EXCEPT ![t].todo = @ \ {k}]
    /\ UNCHANGED <<parserVars, pc, localVars, out, now, ev, histVars, seen, pipeVars, threadVars,
                   lock, rd, serial>>

\* update: self.data["last_updated"] = time.time()
UpdateStamp(t) ==
    /\ upd[t].pc = "write"
    /\ upd[t].todo = {}
    /\ store' = [store EXCEPT !.last_updated = now]
    /\ serial' = Update(serial, upd[t].kwargs, now)
    /\ upd' = [upd EXCEPT ![t].pc = "stamped"]
    /\ UNCHANGED <<parserVars, pc, localVars, out, now, ev, histVars, seen, pipeVars, threadVars, lock, rd>>

\* update: leaving `with self.lock`.
UpdateRelease(t) ==
    /\ upd[t].pc = "stamped"
    /\ lock' = "free"
    /\ upd' = [upd EXCEPT ![t] = NotCalling]
    /\ UNCHANGED <<store, parserVars, pc, localVars, out, now, ev, histVars, seen, pipeVars, threadVars,
                   rd, serial>>

\* Some thread is between the first and the last assignment of its update.
MidUpdate ==
    \E t \in UpdateThreads :
        upd[t].pc = "write" /\ upd[t].todo # DOMAIN upd[t].kwargs

\* get_all: the value handed to the caller, self.data.copy().
GetAllReturnLive(s) == [live |-> TRUE, val |-> s]
GetAllReturn(s) == [live |-> FALSE, val |-> s]

\* What the caller finds in the value it was handed.
Returned == IF rd.ret.live THEN store ELSE rd.ret.val

\* get_all: `with self.lock:` entered by the main thread.
GetAllAcquire ==
    /\ rd.pc = "out"
    /\ LockFree(lock)
    /\ lock' = "main"
    /\ rd' = [rd EXCEPT !.pc = "locked"]
    /\ UNCHANGED <<store, parserVars, pc, localVars, out, now, ev, histVars, seen, pipeVars, threadVars,
                   upd, serial>>

\* get_all: return self.data.copy(), leaving `with self.lock`.
GetAllCopy ==
    /\ rd.pc = "locked"
    /\ rd' = [rd EXCEPT !.pc = "have", !.ret = GetAllReturn(store), !.at = serial,
                        !.midUpdate = MidUpdate]
    /\ lock' = "free"
    /\ UNCHANGED <<store, parserVars, pc, localVars, out, now, ev, histVars, seen, pipeVars, threadVars,
                   upd, serial>>

\* The caller assigns to a key of the dictionary it was handed.
CallerModify ==
    /\ rd.pc = "have"
    /\ ~rd.modified
    /\ IF rd.ret.live
       THEN /\ store' = [store EXCEPT !.album = <<"X">>]
            /\ rd' = [rd EXCEPT !.modified = TRUE]
       ELSE /\ rd' = [rd EXCEPT !.modified = TRUE, !.ret.val.album = <<"X">>]
            /\ UNCHANGED store
    /\ UNCHANGED <<parserVars, pc, localVars, out, now, ev, histVars, seen, pipeVars, threadVars,
                   lock, upd, serial>>

\* The caller is done with the value.
CallerDrop ==
    /\ rd.pc = "have"
    /\ rd' = NotReading
    /\ UNCHANGED <<store, parserVars, pc, localVars, out, now, ev, histVars, seen, pipeVars, threadVars,
                   lock, upd, serial>>

Monitor == UpdateAcquire("monitor") \/ UpdateWriteKey("monitor")
              \/ UpdateStamp("monitor") \/ UpdateRelease("monitor")

Poller == UpdateAcquire("poller") \/ UpdateWriteKey("poller")
              \/ UpdateStamp("poller") \/ UpdateRelease("poller")

(* ------------------------------------------------------------------ *)
(* DBusMonitor: the connection thread and the progress poller          *)
(* ------------------------------------------------------------------ *)

\* self.dbus_interface = dbus.Interface(...); the MPRIS interface may be
\* missing. From here on is_available() is true.
ConnectInterfaces ==
    /\ conn.pc = "connecting"
    /\ dbus_interface' = TRUE
    /\ \E mpris \in BOOLEAN :
          conn' = [conn EXCEPT !.pc = "update", !.mpris_interface = mpris]
    /\ UNCHANGED <<store, now, ev, poll, cmd, monitorVars>>

\* Every attempt raised: self.dbus_interface = None and the thread ends.
ConnectFail ==
    /\ conn.pc = "connecting"
    /\ dbus_interface' = FALSE
    /\ conn' = [conn EXCEPT !.pc = "failed"]
    /\ UNCHANGED <<store, now, ev, poll, cmd, monitorVars>>

\* self.store.update(playback_status="Paused")
ConnectSetPaused ==
    /\ conn.pc = "update"
    /\ store' = Update(store, [playback_status |-> "Paused"], now)
    /\ conn' = [conn EXCEPT !.pc = "notify", !.overrode = store.playback_status]
    /\ ev' = SeenByMonitor(ev, store')
    /\ Bounded(ev'.during)
    /\ poll' = SeenByPoller(poll, store')
    /\ Bounded(poll'.during)
    /\ cmd' = SeenByCommand(cmd, store')
    /\ Bounded(cmd'.during)
    /\ UNCHANGED <<dbus_interface, now, monitorVars>>

\* self.on_state_change(): send_playback_state_update
ConnectNotify ==
    /\ conn.pc = "notify"
    /\ conn' = [conn EXCEPT !.pc = "start", !.notified = GetAll(store).playback_status]
    /\ UNCHANGED <<store, dbus_interface, now, ev, poll, cmd, monitorVars>>

\* self.start_progress_polling(); return
ConnectStartPolling ==
    /\ conn.pc = "start"
    /\ conn' = [conn EXCEPT !.pc = "connected"]
    /\ poll' = [poll EXCEPT !.pc = "status"]
    /\ UNCHANGED <<store, dbus_interface, now, ev, cmd, monitorVars>>

\* get_progress returned None.
NoProgress == [absent |-> TRUE]

\* The (position_ms, duration_ms) pairs get_progress returns.
Progresses == {[position_ms |-> 1000, duration_ms |-> 9000],
               [position_ms |-> 7000, duration_ms |-> 9000]}

\* Pushes happen when update_counter reaches this.
PushEvery == 5

\* abs(position_ms - last_position) above this is a significant change.
SignificantJump == 5000

Abs(n) == IF n < 0 THEN 0 - n ELSE n

\* if update_counter >= 5 or position_changed_significantly:
PushDue(update_counter, position_ms, last_position) ==
    \/ update_counter >= PushEvery
    \/ Abs(position_ms - last_position) > SignificantJump

\* while self.is_available(): playback_status = self.store.get_all()...
PollStatus ==
    /\ poll.pc = "status"
    /\ dbus_interface
    /\ poll' = [poll EXCEPT !.pc = IF GetAll(store).playback_status = "Playing"
                                   THEN "progress" ELSE "sleep"]
    /\ UNCHANGED <<store, dbus_interface, conn, now, ev, cmd, monitorVars>>

\* progress = self.get_progress() returned None.
PollNoProgress ==
    /\ poll.pc = "progress"
    /\ poll' = [poll EXCEPT !.pc = "sleep"]
    /\ UNCHANGED <<store, dbus_interface, conn, now, ev, cmd, monitorVars>>

\* self.store.update(position=position_ms, duration=duration_ms);
\* update_counter += 1; the decision to push.
PollProgress ==
    /\ poll.pc = "progress"
    /\ \E progress \in Progresses :
          LET counter == poll.update_counter + 1
              push == PushDue(counter, progress.position_ms, poll.last_position)
          IN /\ store' = Update(store, [position |-> progress.position_ms,
                                        duration |-> progress.duration_ms], now)
             /\ poll' = [poll EXCEPT
                           !.update_counter = IF push THEN 0 ELSE counter,
                           !.last_position = IF push THEN progress.position_ms ELSE @,
                           !.pc = IF push THEN "send_meta" ELSE "sleep"]
    /\ ev' = SeenByMonitor(ev, store')
    /\ Bounded(ev'.during)
    /\ cmd' = SeenByCommand(cmd, store')
    /\ Bounded(cmd'.during)
    /\ UNCHANGED <<dbus_interface, conn, now, monitorVars>>

\* self.on_metadata_update(): send_metadata_update, first read.
PollSendMeta ==
    /\ poll.pc = "send_meta"
    /\ poll' = [poll EXCEPT
                  !.meta_obj = GetMetadataForSnapcast(store),
                  !.out = NoOut,
                  !.during = {Snapshot(store)},
                  !.overtaken = FALSE,
                  !.sentOld = FALSE,
                  !.pc = IF GetMetadataForSnapcast(store) = NoMeta
                         THEN "sleep" ELSE "send_all"]
    /\ UNCHANGED <<store, dbus_interface, conn, now, ev, cmd, monitorVars>>

\* send_metadata_update, second read and send_notification.
PollSendAll ==
    /\ poll.pc = "send_all"
    /\ poll' = [poll EXCEPT
                  !.out = [method |-> "Plugin.Stream.Player.Properties",
                           playbackStatus |-> GetAll(store).playback_status,
                           position |-> GetAll(store).position,
                           metadata |-> poll.meta_obj],
                  !.during = @ \cup {Snapshot(store)},
                  !.sentOld = poll.overtaken,
                  !.pc = "sleep"]
    /\ ev' = [ev EXCEPT !.overtaken = @ \/ Overtakes(pc, meta_obj, poll.meta_obj)]
    /\ cmd' = [cmd EXCEPT !.overtaken =
                              @ \/ Overtakes(IF cmd.pc = "seek_send_all" THEN "send_all"
                                             ELSE "other", cmd.meta_obj, poll.meta_obj)]
    /\ UNCHANGED <<store, dbus_interface, conn, now, monitorVars>>

\* time.sleep(1) and the next round of the loop.
PollSleep ==
    /\ poll.pc = "sleep"
    /\ poll' = [poll EXCEPT !.pc = "status"]
    /\ UNCHANGED <<store, dbus_interface, conn, now, ev, cmd, monitorVars>>

(* ------------------------------------------------------------------ *)
(* The main thread: run() and handle_command                           *)
(* ------------------------------------------------------------------ *)

\* The methods a request names.
Methods == {"Plugin.Stream.Player.GetProperties", "Plugin.Stream.Player.Control",
            "Plugin.Stream.Control", "Plugin.Stream.Player.Other"}

\* The control commands a request names ("stop" is not one the script knows).
Commands == {"play", "pause", "playPause", "next", "previous", "seek", "stop"}

\* request.get("id"): 0 stands for a missing, null or zero id (`if request_id:`
\* is false), 1 for an id that is truthy.
Ids == {0, 1}

\* request.get("params", {}): missing, a JSON value that is not an object,
\* or an object with a command.
ParamsValues ==
    {[kind |-> "missing"], [kind |-> "not_object"]}
    \cup [kind : {"object"}, command : Commands]

\* The lines that arrive on stdin: text that is not JSON, JSON that is not an
\* object (such as [] or 5), and JSON objects.
Requests ==
    {[kind |-> "invalid_json"], [kind |-> "not_object"]}
    \cup [kind : {"object"}, method : Methods, id : Ids, params : ParamsValues]

\* meta_obj of GetProperties when get_metadata_for_snapcast returned None: {}
EmptyMeta == [empty |-> TRUE]

\* JSON-RPC responses printed on stdout.
ErrorResponse(request_id, code) == [id |-> request_id, error |-> code]
ResultResponse(request_id) == [id |-> request_id, error |-> 0]

\* params.get("command", "")
CommandOf(params) == IF params.kind = "object" THEN params.command ELSE ""

\* The status each control command writes to the store.
StatusAfter(command, state) ==
    CASE command = "play" -> "Playing"
      [] command = "pause" -> "Paused"
      [] command = "playPause" -> IF state = "Playing" THEN "Paused" ELSE "Playing"
      [] OTHER -> "Playing"

\* for line in sys.stdin: line = line.strip(); if line: self.handle_command(line)
ReadRequest(lines) ==
    /\ cmd.pc = "stdin"
    /\ \E request \in lines :
          cmd' = [NotHandling EXCEPT !.pc = "parse", !.request = request]
    /\ UNCHANGED <<store, dbus_interface, conn, poll, now, ev, monitorVars>>

CmdReadLine == ReadRequest(Requests)

\* request = json.loads(line) raised JSONDecodeError: logged, the handler returns.
CmdInvalidJson ==
    /\ cmd.pc = "parse"
    /\ cmd.request.kind = "invalid_json"
    /\ cmd' = [cmd EXCEPT !.pc = "returned"]
    /\ UNCHANGED <<store, dbus_interface, conn, poll, now, ev, monitorVars>>

\* json.loads returned a list, number, string or null: request.get raises
\* AttributeError, and `if request_id:` in the `except Exception` block reads
\* a name that was never bound. The UnboundLocalError leaves handle_command;
\* run() catches it outside its `for line in sys.stdin` loop.
CmdNotObject ==
    /\ cmd.pc = "parse"
    /\ cmd.request.kind = "not_object"
    /\ cmd' = [cmd EXCEPT !.pc = "fatal"]
    /\ UNCHANGED <<store, dbus_interface, conn, poll, now, ev, monitorVars>>

\* method = request.get("method", ""): the branch taken.
CmdDispatch ==
    /\ cmd.pc = "parse"
    /\ cmd.request.kind = "object"
    /\ LET method == cmd.request.method
           request_id == cmd.request.id
       IN cmd' = CASE method = "Plugin.Stream.Player.GetProperties" ->
                        [cmd EXCEPT !.pc = "get_meta"]
                   [] method \in {"Plugin.Stream.Player.Control", "Plugin.Stream.Control"} ->
                        [cmd EXCEPT !.pc = "control"]
                   [] OTHER ->
                        [cmd EXCEPT !.pc = "returned",
                                    !.responses = IF request_id # 0
                                                  THEN <<ErrorResponse(request_id, 0 - 32601)>>
                                                  ELSE <<>>]
    /\ UNCHANGED <<store, dbus_interface, conn, poll, now, ev, monitorVars>>

\* meta_obj = self.store.get_metadata_for_snapcast() or {}
CmdGetMeta ==
    /\ cmd.pc = "get_meta"
    /\ cmd' = [cmd EXCEPT
                 !.meta_obj = IF GetMetadataForSnapcast(store) = NoMeta
                              THEN EmptyMeta ELSE GetMetadataForSnapcast(store),
                 !.during = {Snapshot(store)},
                 !.pc = "get_all"]
    /\ UNCHANGED <<store, dbus_interface, conn, poll, now, ev, monitorVars>>

\* state_data = self.store.get_all(); the response is printed.
CmdGetAll ==
    /\ cmd.pc = "get_all"
    /\ cmd' = [cmd EXCEPT
                 !.result = [playbackStatus |-> GetAll(store).playback_status,
                             position |-> GetAll(store).position,
                             canControl |-> dbus_interface,
                             metadata |-> cmd.meta_obj],
                 !.during = @ \cup {Snapshot(store)},
                 !.responses = Append(@, ResultResponse(cmd.request.id)),
                 !.pc = "returned"]
    /\ UNCHANGED <<store, dbus_interface, conn, poll, now, ev, monitorVars>>

\* command = params.get("command", ""); the is_available() test; the call of
\* the D-Bus method, whose exceptions DBusMonitor catches.
CmdControl ==
    /\ cmd.pc = "control"
    /\ LET params == cmd.request.params
           request_id == cmd.request.id
           command == CommandOf(params)
       IN cmd' =
            IF params.kind = "not_object"
            THEN \* params.get raises AttributeError: `except Exception`
                 [cmd EXCEPT !.pc = "returned",
                             !.available = dbus_interface,
                             !.responses = IF request_id # 0
                                           THEN <<ErrorResponse(request_id, 0 - 32603)>>
                                           ELSE <<>>]
            ELSE IF ~dbus_interface
            THEN [cmd EXCEPT !.pc = "returned",
                             !.responses = <<ErrorResponse(request_id, 0 - 32000)>>]
            ELSE [cmd EXCEPT !.available = TRUE, !.pc =
                     CASE command \in {"play", "pause", "next", "previous"} -> "ctl_update"
                       [] command = "playPause" -> "ctl_toggle"
                       [] command = "seek" -> "seek"
                       [] OTHER -> "respond"]
    /\ UNCHANGED <<store, dbus_interface, conn, poll, now, ev, monitorVars>>

\* current_state = self.store.get_all().get("playback_status", "Paused")
CmdToggleRead ==
    /\ cmd.pc = "ctl_toggle"
    /\ cmd' = [cmd EXCEPT !.current_state = GetAll(store).playback_status,
                          !.pc = "ctl_update"]
    /\ UNCHANGED <<store, dbus_interface, conn, poll, now, ev, monitorVars>>

\* self.store.update(playback_status=...)
CmdUpdate ==
    /\ cmd.pc = "ctl_update"
    /\ store' = Update(store,
                       [playback_status |->
                           StatusAfter(CommandOf(cmd.request.params), cmd.current_state)],
                       now)
    /\ cmd' = [cmd EXCEPT !.updates = @ + 1, !.pc = "ctl_notify"]
    /\ ev' = SeenByMonitor(ev, store')
    /\ Bounded(ev'.during)
    /\ poll' = SeenByPoller(poll, store')
    /\ Bounded(poll'.during)
    /\ UNCHANGED <<dbus_interface, conn, now, monitorVars>>

\* self.send_playback_state_update()
CmdNotify ==
    /\ cmd.pc = "ctl_notify"
    /\ cmd' = [cmd EXCEPT !.notifications = @ + 1, !.pc = "respond"]
    /\ UNCHANGED <<store, dbus_interface, conn, poll, now, ev, monitorVars>>

\* self.dbus_monitor.seek(position): without MPRIS, or when the D-Bus call
\* raises, nothing is written; otherwise self.store.update(position=position_ms)
CmdSeek ==
    /\ cmd.pc = "seek"
    /\ \E progress \in Progresses, raised \in BOOLEAN :
          LET wrote == conn.mpris_interface /\ ~raised IN
          /\ store' = IF wrote
                      THEN Update(store, [position |-> progress.position_ms], now)
                      ELSE store
          /\ cmd' = [cmd EXCEPT !.updates = IF wrote THEN @ + 1 ELSE @,
                                !.pc = "seek_send_meta"]
    /\ ev' = SeenByMonitor(ev, store')
    /\ Bounded(ev'.during)
    /\ poll' = SeenByPoller(poll, store')
    /\ Bounded(poll'.during)
    /\ UNCHANGED <<dbus_interface, conn, now, monitorVars>>

\* self.send_metadata_update() after a seek, first read.
CmdSendMeta ==
    /\ cmd.pc = "seek_send_meta"
    /\ cmd' = [cmd EXCEPT
                 !.meta_obj = GetMetadataForSnapcast(store),
                 !.during = {Snapshot(store)},
                 !.pc = IF GetMetadataForSnapcast(store) = NoMeta
                        THEN "respond" ELSE "seek_send_all"]
    /\ UNCHANGED <<store, dbus_interface, conn, poll, now, ev, monitorVars>>

\* send_metadata_update after a seek, second read and send_notification.
CmdSendAll ==
    /\ cmd.pc = "seek_send_all"
    /\ cmd' = [cmd EXCEPT
                 !.sent = [method |-> "Plugin.Stream.Player.Properties",
                           playbackStatus |-> GetAll(store).playback_status,
                           position |-> GetAll(store).position,
                           metadata |-> cmd.meta_obj],
                 !.during = @ \cup {Snapshot(store)},
                 !.sentOld = cmd.overtaken,
                 !.notifications = @ + 1,
                 !.pc = "respond"]
    /\ ev' = [ev EXCEPT !.overtaken = @ \/ Overtakes(pc, meta_obj, cmd.meta_obj)]
    /\ poll' = [poll EXCEPT !.overtaken = @ \/ Overtakes(poll.pc, poll.meta_obj, cmd.meta_obj)]
    /\ UNCHANGED <<store, dbus_interface, conn, now, monitorVars>>

\* The success response {"result": {}} is printed.
CmdRespond ==
    /\ cmd.pc = "respond"
    /\ cmd' = [cmd EXCEPT !.responses = Append(@, ResultResponse(cmd.request.id)),
                          !.pc = "returned"]
    /\ UNCHANGED <<store, dbus_interface, conn, poll, now, ev, monitorVars>>

\* handle_command returned: run() waits for the next line.
CmdReturn ==
    /\ cmd.pc = "returned"
    /\ cmd' = NotHandling
    /\ UNCHANGED <<store, dbus_interface, conn, poll, now, ev, monitorVars>>

ConnectThread ==
    ConnectInterfaces \/ ConnectFail \/ ConnectSetPaused \/ ConnectNotify
        \/ ConnectStartPolling

PollThread ==
    PollStatus \/ PollNoProgress \/ PollProgress \/ PollSendMeta \/ PollSendAll
        \/ PollSleep

MainThread ==
    CmdReadLine \/ CmdInvalidJson \/ CmdNotObject \/ CmdDispatch \/ CmdGetMeta
        \/ CmdGetAll \/ CmdControl \/ CmdToggleRead \/ CmdUpdate \/ CmdNotify
        \/ CmdSeek \/ CmdSendMeta \/ CmdSendAll \/ CmdRespond \/ CmdReturn

(* ------------------------------------------------------------------ *)
(* gmrender metadata bridge (gmrender-metadata-bridge.py)              *)
(* ------------------------------------------------------------------ *)

\* The texts of the DIDL-Lite elements of a CurrentTrackMetaData line, under
\* the key each one feeds; None: no such element, or one without text.
DidlInputs ==
    {[title |-> t, artist |-> a, album |-> b] :
        t \in {None, <<" ">>, <<"A">>, <<"B">>}, a \in {None, <<"A">>}, b \in {None, <<"A">>}}

\* parse_didl_lite: a key for every element with text, holding the text
\* stripped; malformed XML gives {}, as a document without elements does.
ParseDidlLite(didl) ==
    [k \in {f \in Fields : Truthy(didl[f])} |-> Strip(didl[k])]

\* write_metadata: metadata['status'] = status, and the dict written.
WriteMetadata(metadata, status) ==
    [k \in (DOMAIN metadata) \cup {"status"} |->
        IF k = "status" THEN status ELSE metadata[k]]

\* open(METADATA_FILE, 'w'); json.dump(...): the file replaced, its
\* modification time moved on.
Written(content) ==
    [content |-> content,
     mtime |-> IF metadata_file = NoFile THEN 1 ELSE metadata_file.mtime + 1]

CanWrite == IF metadata_file = NoFile THEN TRUE ELSE metadata_file.mtime < MaxWrites

airplayVars == <<store, parserVars, pc, localVars, out, now, ev, histVars, seen, lockVars,
                 pipeVars, dbus_interface, conn, poll, cmd>>

\* A line with 'TransportState:' in it.
BridgeTransportState(name) ==
    /\ name = "STOPPED" => CanWrite
    /\ bridge' =
          [current_status |->
               CASE name = "PLAYING" -> "Playing"
                 [] name \in {"PAUSED_PLAYBACK", "PAUSED"} -> "Paused"
                 [] name = "STOPPED" -> "Stopped"
                 [] OTHER -> bridge.current_status,
           current_metadata |->
               IF name = "STOPPED" THEN EmptyDict ELSE bridge.current_metadata,
           line |-> "TransportState",
           state |-> name]
    /\ metadata_file' =
          IF name = "STOPPED" THEN Written(WriteMetadata(EmptyDict, "Stopped"))
          ELSE metadata_file
    /\ UNCHANGED <<airplayVars, dlna>>

\* A line with 'CurrentTrackMetaData:' in it.
BridgeTrackMetaData(didl) ==
    LET metadata == ParseDidlLite(didl) IN
    /\ metadata # EmptyDict => CanWrite
    /\ bridge' =
          [bridge EXCEPT
              !.current_metadata =
                  IF metadata # EmptyDict
                  THEN WriteMetadata(metadata, bridge.current_status) ELSE @,
              !.line = "CurrentTrackMetaData",
              !.state = "none"]
    /\ metadata_file' =
          IF metadata # EmptyDict
          THEN Written(WriteMetadata(metadata, bridge.current_status))
          ELSE metadata_file
    /\ UNCHANGED <<airplayVars, dlna>>

BridgeLine ==
    \/ \E name \in TransportStates : BridgeTransportState(name)
    \/ \E didl \in DidlInputs : BridgeTrackMetaData(didl)

(* ------------------------------------------------------------------ *)
(* DLNA control script (dlna-control-script.py)                        *)
(* ------------------------------------------------------------------ *)

\* DLNAMetadataMonitor._parse_metadata_file on the file's content: title,
\* artist and album when the key is there with a non-empty value, the status
\* under playback_status; None for a result without keys.
ParseMetadataFile(content) ==
    LET result ==
          [k \in {f \in Fields : f \in DOMAIN content /\ Truthy(content[f])}
                 \cup (IF "status" \in DOMAIN content THEN {"playback_status"} ELSE {}) |->
              IF k = "playback_status" THEN content["status"] ELSE content[k]]
    IN IF result # EmptyDict THEN result ELSE NoMeta

\* MetadataStore.update(**kwargs): self.data.update(kwargs).
DlnaUpdate(data_before, kwargs) ==
    [k \in DOMAIN data_before |->
        IF k \in DOMAIN kwargs THEN kwargs[k] ELSE data_before[k]]

\* MetadataStore.get_metadata_for_snapcast() or {}: nothing without a title;
\* the artist as a list.
DlnaMetadataForSnapcast(data_now) ==
    IF Truthy(data_now.title)
    THEN [k \in {f \in Fields : Truthy(data_now[f])} |->
             IF k = "artist" THEN <<data_now[k]>> ELSE data_now[k]]
    ELSE EmptyDict

\* send_update: the Plugin.Stream.Player.Properties notification.
DlnaSendUpdate(data_now) ==
    [method |-> "Plugin.Stream.Player.Properties",
     playbackStatus |-> data_now.playback_status,
     canControl |-> (DlnaMetadataForSnapcast(data_now) # EmptyDict
                        \/ data_now.playback_status # "Stopped"),
     metadata |-> DlnaMetadataForSnapcast(data_now)]

\* One pass of the loop of _monitor_metadata_file that finds the file newer
\* than the one it read last.
DlnaMonitor ==
    /\ metadata_file # NoFile
    /\ metadata_file.mtime > dlna.last_mtime
    /\ LET metadata == ParseMetadataFile(metadata_file.content)
           changed == metadata # NoMeta /\ metadata # dlna.last_metadata
           data_after == IF changed THEN DlnaUpdate(dlna.data, metadata) ELSE dlna.data
       IN dlna' = [data |-> data_after,
                   last_mtime |-> metadata_file.mtime,
                   last_metadata |-> IF changed THEN metadata ELSE dlna.last_metadata,
                   out |-> IF changed THEN DlnaSendUpdate(data_after) ELSE NoOut]
    /\ UNCHANGED <<airplayVars, bridge, metadata_file>>

Next ==
    \/ Tick
    \/ Mdst
    \/ Mden
    \/ MdenArtist
    \/ MdenAlbum
    \/ MdenGetState
    \/ MdenSetPlaying
    \/ Minm
    \/ Asar
    \/ Asal
    \/ Mper
    \/ PlaybackItem
    \/ StateUpdate
    \/ Pcst
    \/ Pcen
    \/ SendMeta
    \/ SendAll
    \/ NextLine
    \/ ReaderGetAll
    \/ Monitor
    \/ Poller
    \/ GetAllAcquire
    \/ GetAllCopy
    \/ CallerModify
    \/ CallerDrop
    \/ Hand
    \/ ParseStep
    \/ ItemDone
    \/ ReadLine
    \/ ConnectThread
    \/ PollThread
    \/ MainThread
    \/ BridgeLine
    \/ DlnaMonitor

Spec == Init /\ [][Next]_vars

\* The DLNA source alone: the bridge writing the file, the control script
\* reading it.
NextDlna ==
    \/ BridgeLine
    \/ DlnaMonitor

SpecDlna == Init /\ [][NextDlna]_vars

\* The requests for the properties.
GetPropertiesRequests ==
    {r \in Requests : /\ r.kind = "object"
                      /\ r.method = "Plugin.Stream.Player.GetProperties"
                      /\ r.params.kind = "missing"}

\* Threads that build messages from the store while others write it: titles
\* on the pipe, the connection thread, and GetProperties requests on stdin.
NextSend ==
    \/ Minm
    \/ SendMeta
    \/ SendAll
    \/ NextLine
    \/ ConnectThread
    \/ ReadRequest(GetPropertiesRequests)
    \/ CmdDispatch
    \/ CmdGetMeta
    \/ CmdGetAll
    \/ CmdReturn

SpecSend == Init /\ [][NextSend]_vars

\* ssnc/pbeg
Pbeg == PlaybackItemOf("pbeg")

\* core/minm with one of two titles.
MinmTitle == \E decoded \in {<<"A">>, <<"B">>} : FieldItem("minm", "title", decoded)

\* The pipe monitor and the progress poller both pushing downstream.
NextOrder ==
    \/ MinmTitle
    \/ Pbeg
    \/ StateUpdate
    \/ SendMeta
    \/ SendAll
    \/ NextLine
    \/ ConnectThread
    \/ PollThread

SpecOrder == Init /\ [][NextOrder]_vars

\* core/minm with the title 'A'.
MinmA == FieldItem("minm", "title", <<"A">>)

\* The main thread handling stdin lines while the D-Bus connection is being
\* made and a title arrives on the pipe. The lines: one of each kind -- not
\* JSON, not an object, an unknown method with and without id, GetProperties,
\* Control without params, with params that are not an object, and with each
\* command.
CommandLines ==
    {r \in Requests :
        \/ r.kind # "object"
        \/ /\ r.kind = "object"
           /\ \/ r.method = "Plugin.Stream.Player.Other" /\ r.params.kind = "missing"
              \/ r \in GetPropertiesRequests /\ r.id = 1
              \/ /\ r.method = "Plugin.Stream.Player.Control"
                 /\ (r.params.kind # "object" \/ r.id = 1)
              \/ /\ r.method = "Plugin.Stream.Control"
                 /\ r.id = 1
                 /\ r.params = [kind |-> "object", command |-> "pause"]}

\* run() with those lines.
MainThreadLines ==
    ReadRequest(CommandLines) \/ CmdInvalidJson \/ CmdNotObject \/ CmdDispatch
        \/ CmdGetMeta \/ CmdGetAll \/ CmdControl \/ CmdToggleRead \/ CmdUpdate
        \/ CmdNotify \/ CmdSeek \/ CmdSendMeta \/ CmdSendAll \/ CmdRespond
        \/ CmdReturn

NextCommand ==
    \/ MainThreadLines
    \/ ConnectThread
    \/ MinmA
    \/ SendMeta
    \/ SendAll
    \/ NextLine

SpecCommand == Init /\ [][NextCommand]_vars

\* Playback items and a title on the pipe while the D-Bus connection is being
\* made.
NextConnect ==
    \/ PlaybackItem
    \/ StateUpdate
    \/ MinmA
    \/ SendMeta
    \/ SendAll
    \/ NextLine
    \/ ConnectThread

SpecConnect == Init /\ [][NextConnect]_vars

\* The decoder in front of the handlers: records are handed to parse_item one
\* at a time.
NextDecode ==
    \/ Hand
    \/ ParseStep
    \/ SendMeta
    \/ SendAll
    \/ MdenArtist
    \/ MdenAlbum
    \/ MdenGetState
    \/ MdenSetPlaying
    \/ ItemDone

SpecDecode == Init /\ [][NextDecode]_vars

\* The pipe monitor reading lines, reassembling them and calling parse_item.
NextPipe ==
    \/ ReadLine
    \/ ParseStep
    \/ SendMeta
    \/ SendAll
    \/ MdenArtist
    \/ MdenAlbum
    \/ MdenGetState
    \/ MdenSetPlaying
    \/ ItemDone

SpecPipe == Init /\ [][NextPipe]_vars

\* The store under its lock: two updating threads and one get_all caller.
NextLock ==
    \/ Monitor
    \/ Poller
    \/ GetAllAcquire
    \/ GetAllCopy
    \/ CallerModify
    \/ CallerDrop

SpecLock == Init /\ [][NextLock]_vars

\* Track ids together with titles, bundles and artwork.
NextTrack ==
    \/ Mdst
    \/ Mden
    \/ MdenArtist
    \/ MdenAlbum
    \/ MdenGetState
    \/ MdenSetPlaying
    \/ Minm
    \/ Mper
    \/ Pcst
    \/ Pcen
    \/ SendMeta
    \/ SendAll
    \/ NextLine

SpecTrack == Init /\ [][NextTrack]_vars

\* Store contents handed to the projection: every field absent, empty or set.
TextInputs == {None, <<>>, <<"A">>}
ArtworkInputs == {None, <<>>, DataUrl(<<"cover-1", "jpg">>)}
DurationInputs == {NoDuration, 0, 5}

\* send_metadata_update entered with any store contents.
InitProjection ==
    /\ store \in {[InitialData EXCEPT !.title = t, !.artist = a, !.album = b,
                                       !.artwork_url = u, !.duration = d] :
                     t \in TextInputs, a \in TextInputs, b \in TextInputs,
                     u \in ArtworkInputs, d \in DurationInputs}
    /\ InitParser
    /\ pc = "send_meta"
    /\ ev = [EvNone EXCEPT !.code = "project"]

NextProjection ==
    \/ SendMeta
    \/ SendAll
    \/ NextLine

SpecProjection == InitProjection /\ [][NextProjection]_vars

\* The metadata channel alone: bundles, fields, track ids and playback items.
NextBundle ==
    \/ Mdst
    \/ Mden
    \/ MdenArtist
    \/ MdenAlbum
    \/ MdenGetState
    \/ MdenSetPlaying
    \/ Minm
    \/ Asar
    \/ Asal
    \/ Mper
    \/ PlaybackItem
    \/ StateUpdate
    \/ SendMeta
    \/ SendAll
    \/ NextLine

SpecBundle == Init /\ [][NextBundle]_vars

\* The artwork channel with the clock, track ids and immediate fields.
NextArt ==
    \/ Tick
    \/ Pcst
    \/ Pcen
    \/ Mper
    \/ Minm
    \/ Asar
    \/ Asal
    \/ SendMeta
    \/ SendAll
    \/ NextLine

SpecArt == Init /\ [][NextArt]_vars

\* Metadata bundles (title and artist items) on the pipe-monitor thread with a
\* reader on another thread.
NextRead ==
    \/ Mdst
    \/ Mden
    \/ MdenArtist
    \/ MdenAlbum
    \/ MdenGetState
    \/ MdenSetPlaying
    \/ Minm
    \/ Asar
    \/ SendMeta
    \/ SendAll
    \/ NextLine
    \/ ReaderGetAll

SpecRead == Init /\ [][NextRead]_vars

(* ------------------------------------------------------------------ *)
(* Properties                                                          *)
(* ------------------------------------------------------------------ *)

\* The pipe-monitor thread is past the last field block of mden.
Flushed == pc \in {"mden_get", "mden_status", "send_meta", "send_all", "done"}

\* C1: a get_all made on another thread while a bundle-end is being applied
\* returns title/artist/album that are either all as before the bundle-end or
\* all as after it, never some fields of the bundle merged and others not.
C1_ReaderSeesPreOrPost ==
    seen.midFlush => (seen.data = seen.pre \/ seen.data = seen.post)

\* C2: a track change (mper with an id other than the current one) is a single
\* store update after which title, artist and album are absent and track_id is
\* the new id: no store state has the new id with the old text fields.
C2_TrackChangeAtomic ==
    (ev.code = "mper" /\ ev.change) =>
        /\ ev.updates = 1
        /\ TAA(store) = NoFields
        /\ Truthy(store.track_id)
        /\ store.track_id = current.track_id

\* C2 witness: a track change was processed on a snapshot that had a title,
\* and no item followed.
C2_Witness ==
    /\ pc = "done"
    /\ ev.code = "mper"
    /\ ev.change
    /\ ev.hadTitle
    /\ store.title = None
    /\ store.track_id = <<"B">>

\* C3: every non-empty title/artist/album of the snapshot was received after
\* the most recent track change, that is for the track id now stored.
C3_FieldsBelongToTrack ==
    \A f \in Fields : Truthy(store[f]) => ~storeStale[f]

\* C4: values accumulated in an open bundle before a track change are
\* discarded by it: the bundle-end that closes the bundle merges none of them.
C4_ChangeDiscardsPending ==
    (ev.code = "mden" /\ ev.inBundle) => ~ev.mergedStale

\* C5: the bundle-end of a bundle merges the fields that received a value in
\* the bundle and leaves the snapshot's other fields as they were.
C5_FlushLeavesAbsentFields ==
    (ev.code = "mden" /\ ev.inBundle) =>
        /\ \A f \in Fields : recv[f] = None => store[f] = ev.pre[f]
        /\ Flushed => \A f \in Fields : recv[f] # None => store[f] = recv[f]

\* C5 witness: after a bundle with title and artist, a bundle with only an
\* album was flushed and the snapshot holds all three.
C5_Witness ==
    /\ pc = "done"
    /\ ev.code = "mden"
    /\ ev.inBundle
    /\ recv = [title |-> None, artist |-> None, album |-> <<"B">>]
    /\ ev.pre = [title |-> <<"A">>, artist |-> <<"B">>, album |-> None]
    /\ TAA(store) = [title |-> <<"A">>, artist |-> <<"B">>, album |-> <<"B">>]

\* C6: in an open bundle the pending value of a field is the last non-empty
\* value received for it, whatever empty or blank payloads came after, and
\* that value is the one the bundle-end writes.
C6_EmptyNeverErases ==
    /\ in_metadata_bundle =>
          \A f \in Fields : recv[f] # None => pending_metadata[f] = recv[f]
    /\ (ev.code = "mden" /\ ev.inBundle /\ Flushed) =>
          \A f \in Fields : recv[f] # None => store[f] = recv[f]

\* C6 witness: a blank title arrived in a bundle that had already accumulated
\* a title, which is still pending.
C6_Witness ==
    /\ pc = "done"
    /\ ev.code = "minm"
    /\ ev.blank
    /\ ev.inBundle
    /\ recv.title = <<"A">>
    /\ pending_metadata.title = <<"A">>

\* C7 (as claimed): a bundle-end with nothing accumulated updates the store
\* not at all, signals no update and sends no notification.
C7_EmptyFlushDoesNothing ==
    (pc = "done" /\ ev.code = "mden" /\ ev.empty) =>
        (ev.updates = 0 /\ ~ev.signalled /\ ~ev.sent)

\* C7 (amended): a bundle-end with nothing accumulated leaves title, artist
\* and album as they were; it updates the store exactly when the playback
\* status it reads is not Playing (one update, setting it to Playing), signals
\* an update exactly then, and a notification goes out only then and only if
\* the snapshot has a title.
C7_EmptyFlushOnlySetsPlaying ==
    (ev.code = "mden" /\ ev.empty) =>
        /\ TAA(store) = ev.pre
        /\ pc = "done" =>
            /\ ev.updates = (IF current_state = "Playing" THEN 0 ELSE 1)
            /\ ev.signalled = (current_state # "Playing")
            /\ store.playback_status = "Playing"
            /\ ev.sent => (current_state # "Playing" /\ Truthy(store.title))

\* C7 witness: an empty bundle-end processed while the status was Playing.
C7_Witness ==
    /\ pc = "done"
    /\ ev.code = "mden"
    /\ ev.empty
    /\ ev.inBundle
    /\ current_state = "Playing"
    /\ ev.updates = 0

\* C8: a bundle-end that follows a bundle-end with no bundle-start and no new
\* field value in between, its values already in the snapshot and the status
\* already Playing, sends no notification.
C8_ReflushNoNotification ==
    (pc = "done" /\ ev.code = "mden" /\ ~ev.inBundle /\ ~ev.empty /\ ev.applied
        /\ ev.statusAtEntry = "Playing") => ~ev.sent

\* C9: a track change clears the artwork when the last artwork load is more
\* than the grace window old and keeps it otherwise.
C9_GraceWindow ==
    (ev.code = "mper" /\ ev.change) =>
        store.artwork_url = (IF ev.since > GraceWindow THEN None ELSE ev.artBefore)

\* C9 witness: artwork loaded one second before a track change is still there.
C9_Witness ==
    /\ pc = "done"
    /\ ev.code = "mper"
    /\ ev.change
    /\ ev.since = 1
    /\ Truthy(store.artwork_url)

\* What an artwork-end that resolves nothing leaves behind.
PcenNoop ==
    /\ ~ev.read
    /\ ev.updates = 0
    /\ ~ev.signalled
    /\ ~ev.sent
    /\ store.artwork_url = ev.artBefore

\* C10 (as claimed): an artwork-end whose newest cache file has the name of
\* the file last loaded reads nothing, leaves the artwork and notifies nobody.
C10_SameFileNeverReloaded ==
    (ev.code = "pcen" /\ ev.sameFile) => PcenNoop

\* C10 (amended): the same, provided no track change happened since that file
\* was loaded.
C10_SameFileNotReloadedWithinTrack ==
    (ev.code = "pcen" /\ ev.sameFile /\ ev.noChangeSinceLoad) => PcenNoop

\* C10 witness: an artwork-end found the file it had loaded, with artwork in
\* the snapshot and no track change in between.
C10_Witness ==
    /\ pc = "done"
    /\ ev.code = "pcen"
    /\ ev.sameFile
    /\ ev.noChangeSinceLoad
    /\ Truthy(store.artwork_url)
    /\ Truthy(store.title)

C12_UpdatesSerialized ==
    /\ lock = "free" => store = serial
    /\ rd.pc = "have" => ~rd.midUpdate
    /\ \A t \in UpdateThreads : upd[t].pc # "out" => lock = t

\* C12 witness: both threads have completed updates that touch the same keys,
\* and a reader holds a value taken afterwards.
C12_Witness ==
    /\ lock = "free"
    /\ store.duration = 1
    /\ store.position = 1
    /\ store.track_id = <<"B">>
    /\ rd.pc = "have"
    /\ rd.at = store

\* C13: the value returned by get_all equals the store at the instant of the
\* call, between two update calls, and stays so whatever is updated later;
\* assigning to it leaves the store as the update calls made it.
C13_GetAllReturnsCopy ==
    /\ (rd.pc = "have" /\ ~rd.modified) => Returned = rd.at
    /\ (rd.pc = "have" /\ rd.modified) =>
          /\ Returned = [rd.at EXCEPT !.album = <<"X">>]
          /\ lock = "free" => store = serial

\* C13 witness: the caller holds a returned value, the store has been updated
\* since, and the value still shows the store as it was.
C13_Witness ==
    /\ rd.pc = "have"
    /\ lock = "free"
    /\ store # rd.at
    /\ Returned = rd.at

\* The keys among artist, album and artwork that the snapshot holds non-empty,
\* under their downstream names.
NonEmptyKeys ==
    (IF Truthy(store.artist) THEN {"artist"} ELSE {})
    \cup (IF Truthy(store.album) THEN {"album"} ELSE {})
    \cup (IF Truthy(store.artwork_url) THEN {"artUrl"} ELSE {})

\* C14: with the title absent or empty nothing is projected, whatever the other
\* fields hold; with a non-empty title the projection holds the title and, of
\* artist (as a one-element list), album and artwork, exactly the non-empty ones.
C14_Projection ==
    (ev.code = "project" /\ pc # "send_meta") =>
        IF Truthy(store.title)
        THEN /\ DOMAIN meta_obj \ {"duration"} = {"title"} \cup NonEmptyKeys
             /\ meta_obj.title = store.title
             /\ "artist" \in DOMAIN meta_obj => meta_obj.artist = <<store.artist>>
             /\ "album" \in DOMAIN meta_obj => meta_obj.album = store.album
             /\ "artUrl" \in DOMAIN meta_obj => meta_obj.artUrl = store.artwork_url
        ELSE meta_obj = NoMeta

\* C14 witness: no title but artist, album and artwork all set, and nothing
\* was projected or sent.
C14_Witness ==
    /\ ev.code = "project"
    /\ pc = "done"
    /\ ~Truthy(store.title)
    /\ Truthy(store.artist)
    /\ Truthy(store.album)
    /\ Truthy(store.artwork_url)
    /\ meta_obj = NoMeta
    /\ out = NoOut

\* C15: after an mper item whose id is not blank, inside or outside an open
\* bundle, the snapshot's track id is that id.
C15_TrackIdFollowsMper ==
    (ev.code = "mper" /\ ev.id # None) => store.track_id = ev.id

\* C15 witness: a changed id arrived inside an open bundle and is in the store.
C15_Witness ==
    /\ pc = "done"
    /\ ev.code = "mper"
    /\ ev.inBundle
    /\ ev.change
    /\ ev.id = <<"B">>
    /\ store.track_id = <<"B">>

\* C16: an mper item carrying the first id, or the current id again, leaves
\* title, artist, album and artwork of the snapshot and the pending fields as
\* they were, and no notification is triggered.
C16_FirstOrSameIdKeepsAll ==
    (ev.code = "mper" /\ ev.firstOrSame) =>
        /\ TAA(store) = ev.pre
        /\ store.artwork_url = ev.artBefore
        /\ pending_metadata = ev.pendPre
        /\ ~ev.change
        /\ ~ev.signalled
        /\ ~ev.sent
        /\ pc = "done"
        /\ out = NoOut

\* C16 witness: the first id arrives when the snapshot already has a title and
\* artwork and a field is pending; all of them are still there.
C16_Witness ==
    /\ pc = "done"
    /\ ev.code = "mper"
    /\ ev.firstOrSame
    /\ Truthy(store.title)
    /\ Truthy(store.artwork_url)
    /\ Truthy(pending_metadata.title)
    /\ store.track_id = ev.id
    /\ ev.updates = 1

\* C17: a bundle-end arriving while no bundle is open leaves the tracker idle
\* and leaves title, artist and album of the snapshot as they were.
C17_StrayEndHarmless ==
    (ev.code = "mden" /\ ~ev.inBundle) =>
        /\ ~in_metadata_bundle
        /\ TAA(store) = ev.pre

\* C18: once a bundle-end has been processed and no bundle is open, no pending
\* title, artist or album is left.
C18_PendingClearedAfterEnd ==
    (pc = "idle" /\ ~in_metadata_bundle) => pending_metadata = NoFields

\* C19: a malformed or truncated record handed to the decoder raises nothing
\* and changes neither the parser state nor the store, and once it has
\* returned everything is as it was before the record, so the records before
\* and after it are processed as if it had not been there.
C19_MalformedDropped ==
    [][/\ (pc = "idle" /\ item # NoItem /\ Malformed(item.xml)) =>
            /\ pc' = "done"
            /\ UNCHANGED <<store, parserVars, localVars, out, histVars, pipeVars, threadVars>>
       /\ (pc = "done" /\ item # NoItem /\ Malformed(item.xml)) =>
            /\ pc' = "idle"
            /\ ev' = EvNone
            /\ item' = NoItem
            /\ UNCHANGED <<store, parserVars, localVars, out, histVars, tmp>>]_vars

\* C19 witness: a record cut inside its data was dropped in the middle of an
\* open bundle with a field pending, between two well-formed records.
C19_Witness ==
    /\ pc = "done"
    /\ item # NoItem
    /\ item.xml = <<ItemOpen, TypeElem("636f7265"), CodeElem("6d696e6d"), DataCut("Qg")>>
    /\ ev.code = "dropped"
    /\ in_metadata_bundle
    /\ pending_metadata.title = <<"A">>
    /\ store.track_id = <<"B">>

\* C20: the pipe monitor never stops on a record it cannot decode, a stray
\* bundle-end, a repeated id or missing artwork, and every well-formed record
\* read after such an event is processed: it is not dropped.
C20_LaterRecordsProcessed ==
    /\ pc # "crashed"
    /\ (pc = "done" /\ item # NoItem /\ item.line \in GoodRecords) =>
            ev.code # "dropped"

\* C21 (as claimed): an artwork-end that finds no cover file, cannot read it,
\* or finds the file that was loaded last changes nothing: no read result, no
\* store update, no notification, the load time as it was, no error.
C21_UnavailableArtworkNoUpdate ==
    (ev.code = "pcen" /\ (ev.missing \/ ev.unreadable \/ ev.sameFile)) =>
        /\ ev.updates = 0
        /\ ~ev.signalled
        /\ ~ev.sent
        /\ store.artwork_url = ev.artBefore
        /\ last_artwork_load_time = ev.loadTimePre
        /\ pc # "crashed"

\* C21 (amended): the same, where the file loaded last counts as unchanged only
\* if no track change happened since it was loaded.
C21_UnavailableArtworkNoUpdateWithinTrack ==
    (ev.code = "pcen"
        /\ (ev.missing \/ ev.unreadable \/ (ev.sameFile /\ ev.noChangeSinceLoad))) =>
        /\ ev.updates = 0
        /\ ~ev.signalled
        /\ ~ev.sent
        /\ store.artwork_url = ev.artBefore
        /\ last_artwork_load_time = ev.loadTimePre
        /\ pc = "done"

\* C21 witness: a newer cover file could not be read while the snapshot holds
\* a title and the artwork of an earlier file, which stays.
C21_Witness ==
    /\ pc = "done"
    /\ ev.code = "pcen"
    /\ ev.unreadable
    /\ ~ev.missing
    /\ ~ev.sameFile
    /\ ev.read
    /\ Truthy(store.title)
    /\ Truthy(store.artwork_url)
    /\ last_artwork_load_time < now

\* C22: a track change on a snapshot whose title was being presented ends with
\* a notification sent downstream, so that the old track's fields are replaced
\* there.
C22_TrackChangeNotifies ==
    (pc = "done" /\ ev.code = "mper" /\ ev.change /\ ev.hadTitle) => ev.sent

\* What a message shows of the store.
Shown(o) ==
    [metadata |-> o.metadata, playbackStatus |-> o.playbackStatus,
     position |-> o.position]

\* What a GetProperties result shows when the store is as in snapshot `s`.
ResultOf(s) ==
    [s EXCEPT !.metadata = IF @ = NoMeta THEN EmptyMeta ELSE @]

\* C23: every Plugin.Stream.Player.Properties notification (of the pipe
\* monitor, the poller and the main thread) and every GetProperties result
\* shows metadata, playbackStatus and position that were in the store together
\* at one instant between the message's first read and its printing.
C23_SingleSnapshot ==
    /\ (pc = "done" /\ ev.sent) => Shown(out) \in ev.during
    /\ poll.out # NoOut => Shown(poll.out) \in poll.during
    /\ cmd.sent # NoOut => Shown(cmd.sent) \in cmd.during
    /\ cmd.result # NoOut => Shown(cmd.result) \in {ResultOf(s) : s \in cmd.during}

\* C24: notifications are printed in store order: no thread prints a
\* notification whose metadata was read from an older store after another
\* thread has printed one built from the store that replaced it.
C24_StoreOrder ==
    /\ ~ev.sentOld
    /\ ~poll.sentOld
    /\ ~cmd.sentOld

\* The field each core item carries.
FieldOf(code) ==
    CASE code = "minm" -> "title" [] code = "asar" -> "artist" [] OTHER -> "album"

\* C25: a title, artist or album item with a non-blank payload that arrives
\* while no bundle is open is written to the store in that very step, in one
\* update that changes this field only, nothing is kept pending for a
\* bundle-end, and the handler signals a notification.
C25_ImmediateOutsideBundle ==
    [][(/\ pc = "idle"
        /\ ev'.code \in {"minm", "asar", "asal"}
        /\ ~in_metadata_bundle
        /\ ~ev'.blank)
       => (/\ store'[FieldOf(ev'.code)] = ev'.value
           /\ \A k \in DOMAIN store \ {FieldOf(ev'.code), "last_updated"} :
                 store'[k] = store[k]
           /\ ev'.updates = 1
           /\ pending_metadata' = pending_metadata
           /\ ev'.signalled
           /\ pc' = "send_meta")]_vars

\* C25 witness: an artist item outside a bundle has been handled; the store
\* holds the artist although it holds no title.
C25_Witness ==
    /\ pc = "done"
    /\ ev.code = "asar"
    /\ ~ev.inBundle
    /\ ev.value = <<"A">>
    /\ ev.signalled
    /\ store.artist = <<"A">>
    /\ store.title = None

C27_CompleteLineHandedAsIs ==
    (item # NoItem /\ item.line \in GoodRecords) => item.xml = item.line

\* C28: handle_command returns normally for every line, so the loop of run()
\* that reads stdin is never left.
C28_HandleCommandReturns ==
    cmd.pc # "fatal"

\* The line handled is a Control request.
IsControl ==
    /\ cmd.request.kind = "object"
    /\ cmd.request.method \in {"Plugin.Stream.Player.Control", "Plugin.Stream.Control"}

\* C29: once a Control request is handled, the handler has printed exactly
\* one response: if D-Bus control was unavailable the error -32000, with no
\* store update and no notification by the handler; if it was available the
\* success response.
C29_ControlAnswered ==
    (cmd.pc = "returned" /\ IsControl) =>
        IF cmd.available
        THEN cmd.responses = <<ResultResponse(cmd.request.id)>>
        ELSE /\ cmd.responses = <<ErrorResponse(cmd.request.id, 0 - 32000)>>
             /\ cmd.updates = 0
             /\ cmd.notifications = 0

\* C30: a playback_status of Playing is replaced only by the handler of a
\* pause, flush or end item of the stream or by a control command; no other
\* step, the D-Bus connection succeeding in particular, changes it.
C30_PlayingStays ==
    [][(store.playback_status = "Playing" /\ store'.playback_status # "Playing")
       => \/ pc = "state_update" /\ ev.code \in {"paus", "pfls", "pend"}
          \/ cmd.pc = "ctl_update"]_vars

\* The status each playback-state event stands for.
StatusFor(code) ==
    CASE code = "pbeg" -> "Playing"
      [] code = "prsm" -> "Playing"
      [] code = "paus" -> "Paused"
      [] code = "pfls" -> "Paused"
      [] OTHER -> "Stopped"

\* C31 (as claimed): the handler of a playback-state event updates the store
\* and signals a notification if and only if its step changes the stored
\* playback_status.
C31_UpdatesIffChanges ==
    [][(pc = "state_update" /\ pc' # pc) =>
          /\ ev'.updates = 1 <=> store'.playback_status # store.playback_status
          /\ ev'.signalled <=> store'.playback_status # store.playback_status]_vars

\* C31 (what the handler guarantees): it updates the store and signals a
\* notification if and only if the status it read on entry differs
\* from the status of the event; the update sets exactly that status, and
\* otherwise the store is left as it is. An event repeated with nothing in
\* between reads the status it has just set and does nothing.
C31_UpdatesIffReadDiffers ==
    [][(pc = "state_update" /\ pc' # pc) =>
          LET differs == current_state # StatusFor(ev.code) IN
          /\ ev'.updates = (IF differs THEN 1 ELSE 0)
          /\ ev'.signalled <=> differs
          /\ pc' = (IF differs THEN "send_meta" ELSE "done")
          /\ store'.playback_status =
                (IF differs THEN StatusFor(ev.code) ELSE store.playback_status)
          /\ ~differs => store' = store
          /\ \A k \in DOMAIN store \ {"playback_status", "last_updated"} :
                store'[k] = store[k]]_vars

\* C31 witness: a flush arrived while the status was already Paused, after the
\* connection thread had set it: nothing was written and nothing signalled.
C31_Witness ==
    /\ pc = "done"
    /\ ev.code = "pfls"
    /\ ev.statusAtEntry = "Paused"
    /\ store.playback_status = "Paused"
    /\ conn.overrode = "Playing"
    /\ ev.updates = 0
    /\ ~ev.signalled

\* C32: the snapshot is always in NoTrack, HasTrackNoMeta or HasTrackWithMeta:
\* the store holds a non-empty title, artist or album only while it holds a
\* track id.
C32_MetadataOnlyWithTrack ==
    (\E f \in Fields : Truthy(store[f])) => Truthy(store.track_id)

\* C33: while a bundle is open, a title, artist or album item changes at most
\* its own pending field: the store (title, artist, album, track id, artwork
\* and the rest) and the parser's current fields stay as they are, and the
\* handler signals no notification.
C33_PendingOnlyInBundle ==
    [][(/\ pc = "idle"
        /\ ev'.code \in {"minm", "asar", "asal"}
        /\ in_metadata_bundle)
       => (/\ store' = store
           /\ current' = current
           /\ \A g \in Fields \ {FieldOf(ev'.code)} :
                 pending_metadata'[g] = pending_metadata[g]
           /\ pending_metadata'[FieldOf(ev'.code)] =
                 (IF ev'.blank THEN pending_metadata[FieldOf(ev'.code)] ELSE ev'.value)
           /\ ev'.updates = 0
           /\ ~ev'.signalled
           /\ pc' = "done"
           /\ out' = out)]_vars

\* C33 witness: inside a bundle a new title is pending while the store still
\* publishes the previous one with its track id.
C33_Witness ==
    /\ pc = "done"
    /\ ev.code = "minm"
    /\ ev.inBundle
    /\ in_metadata_bundle
    /\ ev.value = <<"A">>
    /\ pending_metadata.title = <<"A">>
    /\ store.title = <<"B">>
    /\ Truthy(store.track_id)
    /\ ~ev.signalled

\* C34: whenever the line the bridge processed last is a TransportState line
\* naming PLAYING, PAUSED, PAUSED_PLAYBACK or STOPPED, the metadata file exists
\* and the status in it is the bridge's current status.
C34_FileStatusIsCurrent ==
    (bridge.line = "TransportState"
        /\ bridge.state \in {"PLAYING", "PAUSED", "PAUSED_PLAYBACK", "STOPPED"})
    => (/\ metadata_file # NoFile
        /\ metadata_file.content["status"] = bridge.current_status)

\* C35: once the control script has read the file the bridge wrote for
\* STOPPED (the status and nothing else), its store holds no title, artist or
\* album, and the notification of that pass carries empty metadata.
C35_StoppedClearsTrack ==
    (/\ bridge.state = "STOPPED"
     /\ metadata_file # NoFile
     /\ metadata_file.content = WriteMetadata(EmptyDict, "Stopped")
     /\ dlna.last_mtime = metadata_file.mtime)
    => (/\ \A f \in Fields : ~Truthy(dlna.data[f])
        /\ dlna.out # NoOut => dlna.out.metadata = EmptyDict)

====
